---- MODULE Spec2Model ----
(***************************************************************************)
(* GeoLabel (iankchristie/geotune): the chip-grid geometry of              *)
(* frontend/src/components/Map/chipUtils.js, the label state of            *)
(* frontend/src/hooks/useLabels.js and the handlers of LabelingPage.jsx    *)
(* and MapContainer.jsx that drive them.                                   *)
(*                                                                         *)
(* Numbers.  JavaScript numbers are binary floating point; here an angle   *)
(* is an integer count of units of 1/111320 degree (the length of one      *)
(* metre of latitude), so that metersToDegreesLat is exact.  The cosine is *)
(* a fixed-point value scaled by CosScale.  Every intermediate value stays *)
(* below 2^31.                                                             *)
(***************************************************************************)
EXTENDS Integers, Sequences, FiniteSets

VARIABLES
    \* map clicks (MapContainer.jsx handleClick) and what snapping made of them
    click, snapped, resnapped, earlier, chipRing,
    \* generateChipsForPolygon: the polygon drawn and the chips returned
    drawn, covering,
    \* generateChipGrid: the bounding box scanned and the centres emitted
    gridBox, grid,
    \* metersToDegreesLng: a distance, a latitude and the degrees returned
    convMeters, convLatitude, convDegrees,
    \* useLabels.js: the hook's state and the module-level id counters
    chips, polygons, chipIdCounter, polygonIdCounter,
    \* LabelingPage.jsx: the project open in the page, and the labels the
    \* server stores for each project
    projectId, stored, lastOp,
    \* LabelingPage.jsx: the mode, the selection, the blades, the delete
    \* modal, the inference bounds being drawn and the startInference calls
    \* not yet answered
    labelType, isAnnotating, activeChipCenter, pendingPolygons, selectedChipId,
    showExport, showTraining, showInference, showSample, showSelect,
    cameFromExport, deleteModalOpen, chipToDelete,
    isDrawingBounds, inferenceCalls,
    \* LabelingPage.jsx: the auto-save timer, the label requests the server
    \* has not yet handled, and the clearLabels answers not yet handled
    saveTimeout, inFlight, clearReplies,
    \* whether a label change made after the initial load has not yet been
    \* sent with saveLabels
    unsavedChange,
    \* LabelingPage.jsx: whether the page is mounted, the project loaded by
    \* getProject (0: null), the hasInitiallyLoaded ref, the loadProject calls
    \* on their way, and the project whose labels setInitialState put into
    \* the label state last (0: none)
    mounted, project, hasInitiallyLoaded, loads, labelsLoadedFor,
    \* MapContainer.jsx: the data of the two chip layers of the map
    positiveSource, negativeSource,
    \* MapContainer.jsx: the inference bounds being dragged; and of the mouse:
    \* whether its button is down, where it went down last, whether it moved
    \* since, and the bounds last handed to onBoundsDrawn
    boundsStart, currentBounds, buttonDown, mouseDownAt, dragged, boundsDrawn,
    \* TrainingDetails.jsx and InferenceDetails.jsx: which of the two the job
    \* belongs to, the status the server holds for the job, whether the
    \* component is mounted, the status of the job in its jobs state ("none":
    \* not in it), its two intervals, and the answers on their way to it
    jobKind, jobStatus, detailsMounted, jobsShown, listInterval, activeInterval, responses

geomVars == <<click, snapped, resnapped, earlier, chipRing>>
coverVars == <<drawn, covering>>
gridVars == <<gridBox, grid>>
convVars == <<convMeters, convLatitude, convDegrees>>
labelVars == <<chips, polygons, chipIdCounter, polygonIdCounter>>
pageVars == <<projectId, stored, lastOp>>
bladeVars == <<showExport, showTraining, showInference, showSample, showSelect, cameFromExport>>
modalVars == <<deleteModalOpen, chipToDelete>>
annotVars == <<isAnnotating, activeChipCenter, pendingPolygons>>
uiVars == <<labelType, annotVars, selectedChipId, bladeVars, modalVars,
            isDrawingBounds, inferenceCalls>>
netVars == <<saveTimeout, inFlight, clearReplies, unsavedChange>>
loadVars == <<mounted, project, hasInitiallyLoaded, loads, labelsLoadedFor>>
layerVars == <<positiveSource, negativeSource>>
drawVars == <<boundsStart, currentBounds, buttonDown, mouseDownAt, dragged, boundsDrawn>>
pollVars == <<jobKind, jobStatus, detailsMounted, jobsShown, listInterval, activeInterval,
              responses>>
sideVars == <<layerVars, drawVars, loadVars, pollVars>>
vars == <<geomVars, coverVars, gridVars, convVars, labelVars, pageVars, uiVars, netVars,
          sideVars>>

\* no point yet (a state variable that holds a point or nothing)
NoPoint == [none |-> TRUE]

\* no value yet (a state variable that holds a string, a sequence or nothing)
None == "none"

\* no result yet
NoResult == [none |-> TRUE]

\* no chip id (a state variable that holds a chip id or null)
NoChip == [prefix |-> "none", digits |-> <<>>]

\* no operation yet
NoOp == [name |-> None]

(* The parts of the initial state: the page before any click, any drawing,  *)
(* any label and any project.                                               *)

InitGeomIdle ==
    /\ click = [lng |-> 0, lat |-> 0]
    /\ snapped = NoPoint
    /\ resnapped = NoPoint
    /\ earlier = NoPoint
    /\ chipRing = <<>>

InitCover ==
    /\ drawn = [type |-> "Polygon", coordinates |-> <<>>]
    /\ covering = NoResult

InitGrid ==
    /\ gridBox = <<0, 0, 0, 0>>
    /\ grid = NoResult

InitConv ==
    /\ convMeters = 0
    /\ convLatitude = 0
    /\ convDegrees = NoResult

InitLabels ==
    /\ chips = <<>>
    /\ polygons = <<>>
    /\ chipIdCounter = 0
    /\ polygonIdCounter = 0

InitPage ==
    /\ projectId = 0
    /\ stored = <<>>
    /\ lastOp = NoOp

InitUi ==
    /\ labelType = "negative"
    /\ isAnnotating = FALSE
    /\ activeChipCenter = NoPoint
    /\ pendingPolygons = <<>>
    /\ selectedChipId = NoChip
    /\ showExport = FALSE
    /\ showTraining = FALSE
    /\ showInference = FALSE
    /\ showSample = FALSE
    /\ showSelect = FALSE
    /\ cameFromExport = FALSE
    /\ deleteModalOpen = FALSE
    /\ chipToDelete = NoChip
    /\ isDrawingBounds = FALSE
    /\ inferenceCalls = 0

InitNet ==
    /\ saveTimeout = NoResult
    /\ inFlight = <<>>
    /\ clearReplies = 0
    /\ unsavedChange = FALSE

\* the chip sources as addSource creates them
InitLayers ==
    /\ positiveSource = [type |-> "FeatureCollection", features |-> <<>>]
    /\ negativeSource = [type |-> "FeatureCollection", features |-> <<>>]

InitDrawBounds ==
    /\ boundsStart = NoPoint
    /\ currentBounds = NoResult
    /\ buttonDown = FALSE
    /\ mouseDownAt = NoPoint
    /\ dragged = FALSE
    /\ boundsDrawn = NoResult

\* no page is mounted
InitUnmounted ==
    /\ mounted = FALSE
    /\ project = 0
    /\ hasInitiallyLoaded = FALSE
    /\ loads = <<>>
    /\ labelsLoadedFor = 0

\* a job just created, and neither details blade open
InitJob ==
    /\ jobStatus = "pending"
    /\ detailsMounted = FALSE
    /\ jobsShown = "none"
    /\ listInterval = FALSE
    /\ activeInterval = FALSE
    /\ responses = <<>>

InitSide ==
    /\ InitLayers
    /\ InitDrawBounds
    /\ InitUnmounted
    /\ jobKind = "training"
    /\ InitJob

----------------------------------------------------------------------------
(* config.js and the arithmetic of chipUtils.js *)

CHIP_SIZE_METERS == 2560

\* metres in one degree of latitude: the divisor of both conversions
MetersPerDegree == 111320

\* units of angle in one degree
UnitsPerDegree == MetersPerDegree

CosScale == 1000 * 1000

\* the latitude of the north pole
Pole == 90 * UnitsPerDegree

\* 1/(111320 * cos) is held to 1/SecScale of a unit per metre; SecScale
\* divides CHIP_SIZE_METERS / 2, so half a chip is exactly half of a chip,
\* as it is when a binary floating-point number is halved.
SecScale == 5 * 2^8

Abs(x) == IF x < 0 THEN -x ELSE x

\* Math.cos at whole degrees 0..90, scaled by CosScale
CosTable ==
   << 1000000, 999848, 999391, 998630, 997564, 996195, 994522, 992546,
      990268, 987688, 984808, 981627, 978148, 974370, 970296, 965926,
      961262, 956305, 951057, 945519, 939693, 933580, 927184, 920505,
      913545, 906308, 898794, 891007, 882948, 874620, 866025, 857167,
      848048, 838671, 829038, 819152, 809017, 798636, 788011, 777146,
      766044, 754710, 743145, 731354, 719340, 707107, 694658, 681998,
      669131, 656059, 642788, 629320, 615661, 601815, 587785, 573576,
      559193, 544639, 529919, 515038, 500000, 484810, 469472, 453990,
      438371, 422618, 406737, 390731, 374607, 358368, 342020, 325568,
      309017, 292372, 275637, 258819, 241922, 224951, 207912, 190809,
      173648, 156434, 139173, 121869, 104528, 87156, 69756, 52336,
      34899, 17452, 0 >>

\* Math.cos of an angle a of the first quadrant, 0 <= a <= 90 degrees: the
\* table, interpolated linearly between whole degrees
CosQuadrant(a) ==
    LET d == a \div UnitsPerDegree
        f == a % UnitsPerDegree
    IN  IF d >= 90 THEN CosTable[91]
        ELSE CosTable[d + 1] - ((CosTable[d + 1] - CosTable[d + 2]) * f) \div UnitsPerDegree

\* Math.cos((latitude * Math.PI) / 180), for latitudes up to 180 degrees
\* either side of the equator: even in the latitude, and negative beyond
\* 90 degrees (cos(180 - x) = -cos(x)).
Cos(latitude) ==
    LET a == Abs(latitude)
    IN  IF a <= 90 * UnitsPerDegree THEN CosQuadrant(a)
        ELSE -CosQuadrant(180 * UnitsPerDegree - a)

\* Math.round(a / b) for b > 0: the nearest integer, a half rounded up
Round(a, b) == (2 * a + b) \div (2 * b)

metersToDegreesLat(meters) == (meters * UnitsPerDegree) \div MetersPerDegree

\* a step longer than any span of longitudes: what a quotient by a cosine
\* next to zero is held as
HugeStep == 2^30

\* the cosines (scaled by CosScale) under which the reciprocal is no longer
\* held to 1/SecScale
SmallCos == 2000

Sign(x) == IF x < 0 THEN -1 ELSE IF x > 0 THEN 1 ELSE 0

\* meters / (111320 * Math.cos(...)) for a cosine c # 0 of either sign: the
\* reciprocal first, to the nearest 1/SecScale, then the product; next to
\* the poles the quotient itself, held as HugeStep when it is longer
quotientByCos(meters, c) ==
    LET m == Abs(meters)
        k == Abs(c)
        sec == (SecScale * CosScale + k \div 2) \div k
        q == (m * (CosScale \div 2)) \div k
    IN  Sign(meters) * Sign(c) *
            (IF k >= SmallCos THEN (m * sec) \div SecScale
             ELSE IF q >= HugeStep \div 2 THEN HugeStep
             ELSE 2 * q)

\* metersToDegreesLng without the cosine
metersToDegreesLng_NoCos(meters, latitude) ==
    (meters * UnitsPerDegree) \div MetersPerDegree

\* Math.cos(Math.PI / 2) is 6.1e-17, not 0: at exactly 90 degrees the
\* quotient is finite, of the sign of meters, and longer than any span
metersToDegreesLng(meters, latitude) ==
    LET c == Cos(latitude)
    IN  IF c = 0 THEN Sign(meters) * HugeStep
        ELSE quotientByCos(meters, c)

snapToChipGrid(lng, lat) ==
    LET chipSizeLat == metersToDegreesLat(CHIP_SIZE_METERS)
        chipSizeLng == metersToDegreesLng(CHIP_SIZE_METERS, lat)
        snappedLat == Round(lat, chipSizeLat) * chipSizeLat
        snappedLng == Round(lng, chipSizeLng) * chipSizeLng
    IN  [lng |-> snappedLng, lat |-> snappedLat]

\* createChipFromCenter with the last two corners in the wrong order
createChipFromCenter_Unordered(centerLng, centerLat) ==
    LET halfSizeLat == metersToDegreesLat(CHIP_SIZE_METERS \div 2)
        halfSizeLng == metersToDegreesLng(CHIP_SIZE_METERS \div 2, centerLat)
    IN  << <<centerLng - halfSizeLng, centerLat - halfSizeLat>>,
           <<centerLng + halfSizeLng, centerLat - halfSizeLat>>,
           <<centerLng - halfSizeLng, centerLat + halfSizeLat>>,
           <<centerLng + halfSizeLng, centerLat + halfSizeLat>>,
           <<centerLng - halfSizeLng, centerLat - halfSizeLat>> >>

createChipFromCenter(centerLng, centerLat) ==
    LET halfSizeLat == metersToDegreesLat(CHIP_SIZE_METERS \div 2)
        halfSizeLng == metersToDegreesLng(CHIP_SIZE_METERS \div 2, centerLat)
    IN  << <<centerLng - halfSizeLng, centerLat - halfSizeLat>>,
           <<centerLng + halfSizeLng, centerLat - halfSizeLat>>,
           <<centerLng + halfSizeLng, centerLat + halfSizeLat>>,
           <<centerLng - halfSizeLng, centerLat + halfSizeLat>>,
           <<centerLng - halfSizeLng, centerLat - halfSizeLat>> >>

----------------------------------------------------------------------------
(* @turf/turf, as chipUtils.js uses it.  A ring is a sequence of            *)
(* <<lng, lat>> positions.  Cross products are taken of differences of     *)
(* coordinates, never of the coordinates themselves.                       *)

\* a * b <= 0, without the product
OppositeSigns(a, b) == (a <= 0 /\ b >= 0) \/ (a >= 0 /\ b <= 0)

Min2(a, b) == IF a < b THEN a ELSE b
Max2(a, b) == IF a > b THEN a ELSE b

RECURSIVE MinCoord(_, _, _)
MinCoord(ring, k, i) ==
    IF i = Len(ring) THEN ring[i][k] ELSE Min2(ring[i][k], MinCoord(ring, k, i + 1))

RECURSIVE MaxCoord(_, _, _)
MaxCoord(ring, k, i) ==
    IF i = Len(ring) THEN ring[i][k] ELSE Max2(ring[i][k], MaxCoord(ring, k, i + 1))

\* turf.bbox: [minLng, minLat, maxLng, maxLat] over the positions
bbox(ring) ==
    << MinCoord(ring, 1, 1), MinCoord(ring, 2, 1), MaxCoord(ring, 1, 1), MaxCoord(ring, 2, 1) >>

\* turf.polygon: throws on a ring of fewer than 4 positions and on a ring
\* whose first and last positions differ
polygonThrows(coordinates) ==
    \E r \in 1..Len(coordinates) :
        \/ Len(coordinates[r]) < 4
        \/ coordinates[r][Len(coordinates[r])] # coordinates[r][1]

\* the ring without its closing position (inRing slices it off)
Open(ring) ==
    IF ring[1] = ring[Len(ring)] THEN SubSeq(ring, 1, Len(ring) - 1) ELSE ring

(* Products of two differences of coordinates do not fit the integers of the *)
(* model when a chip next to a pole is a million units wide.  They are held *)
(* exactly, as three limbs <<h, m, l>> of value h * WideBase^2 + m *         *)
(* WideBase + l with 0 <= m, l < WideBase, as a floating-point product holds *)
(* them.                                                                    *)

WideBase == 2^15

\* a * b
WideMul(a, b) ==
    LET a1 == a \div WideBase
        a0 == a % WideBase
        b1 == b \div WideBase
        b0 == b % WideBase
        low == a0 * b0
        mid == a1 * b0 + a0 * b1 + low \div WideBase
    IN  << a1 * b1 + mid \div WideBase, mid % WideBase, low % WideBase >>

\* x - y
WideSub(x, y) ==
    LET low == x[3] - y[3]
        mid == x[2] - y[2] + low \div WideBase
    IN  << x[1] - y[1] + mid \div WideBase, mid % WideBase, low % WideBase >>

\* the sign of x: -1, 0 or 1
WideSign(x) ==
    IF x[1] # 0 THEN Sign(x[1])
    ELSE IF x[2] > 0 \/ x[3] > 0 THEN 1 ELSE 0

\* the sign of a * b - c * d
CrossSign(a, b, c, d) == WideSign(WideSub(WideMul(a, b), WideMul(c, d)))

\* inRing's test of one edge (i, j) for a point on it
onBoundary(pt, pi, pj) ==
    /\ CrossSign(pi[1] - pt[1], pj[2] - pt[2], pj[1] - pt[1], pi[2] - pt[2]) = 0
    /\ OppositeSigns(pi[1] - pt[1], pj[1] - pt[1])
    /\ OppositeSigns(pi[2] - pt[2], pj[2] - pt[2])

\* inRing's test of one edge for a crossing of the ray from pt:
\* yi > y !== yj > y && x < (xj - xi) * (y - yi) / (yj - yi) + xi
crosses(pt, pi, pj) ==
    /\ (pi[2] > pt[2]) # (pj[2] > pt[2])
    /\ IF pj[2] - pi[2] > 0
       THEN CrossSign(pt[1] - pi[1], pj[2] - pi[2], pj[1] - pi[1], pt[2] - pi[2]) < 0
       ELSE CrossSign(pt[1] - pi[1], pj[2] - pi[2], pj[1] - pi[1], pt[2] - pi[2]) > 0

\* the number of edges i..n of the open ring that the ray crosses
RECURSIVE Crossings(_, _, _)
Crossings(pt, ring, i) ==
    IF i > Len(ring) THEN 0
    ELSE LET j == IF i = 1 THEN Len(ring) ELSE i - 1
         IN  (IF crosses(pt, ring[i], ring[j]) THEN 1 ELSE 0) + Crossings(pt, ring, i + 1)

\* turf.booleanPointInPolygon, boundary included
booleanPointInPolygon(pt, closedRing) ==
    LET ring == Open(closedRing)
    IN  \/ \E i \in 1..Len(ring) :
              onBoundary(pt, ring[i], ring[IF i = 1 THEN Len(ring) ELSE i - 1])
        \/ Crossings(pt, ring, 1) % 2 = 1

\* turf.lineIntersect on two segments p1-p2 and p3-p4: parallel segments
\* give no intersection; otherwise uA = numeA / denom and uB = numeB / denom
\* are both within [0, 1]
segmentsIntersect(p1, p2, p3, p4) ==
    LET denom == WideSub(WideMul(p4[2] - p3[2], p2[1] - p1[1]),
                         WideMul(p4[1] - p3[1], p2[2] - p1[2]))
        numeA == WideSub(WideMul(p4[1] - p3[1], p1[2] - p3[2]),
                         WideMul(p4[2] - p3[2], p1[1] - p3[1]))
        numeB == WideSub(WideMul(p2[1] - p1[1], p1[2] - p3[2]),
                         WideMul(p2[2] - p1[2], p1[1] - p3[1]))
        s == WideSign(denom)
    IN  /\ s # 0
        /\ s * WideSign(numeA) >= 0
        /\ s * WideSign(WideSub(denom, numeA)) >= 0
        /\ s * WideSign(numeB) >= 0
        /\ s * WideSign(WideSub(denom, numeB)) >= 0

\* turf.booleanIntersects of two polygons (not booleanDisjoint): a vertex of
\* one inside the other, or two edges that cross
booleanIntersects(ring1, ring2) ==
    \/ \E i \in 1..Len(ring1) : booleanPointInPolygon(ring1[i], ring2)
    \/ \E i \in 1..Len(ring2) : booleanPointInPolygon(ring2[i], ring1)
    \/ \E i \in 1..(Len(ring1) - 1), j \in 1..(Len(ring2) - 1) :
          segmentsIntersect(ring1[i], ring1[i + 1], ring2[j], ring2[j + 1])

----------------------------------------------------------------------------
(* generateChipGrid and generateChipsForPolygon *)

\* the inner loop with lng <= maxLng for its condition
RECURSIVE RowCenters_Inclusive(_, _, _, _)
RowCenters_Inclusive(lng, lat, maxLng, currentStepLng) ==
    IF lng <= maxLng
    THEN <<[lng |-> lng, lat |-> lat]>>
         \o RowCenters_Inclusive(lng + currentStepLng, lat, maxLng, currentStepLng)
    ELSE <<>>

\* the inner loop: for (lng = startLng; lng < maxLng; lng += currentStepLng)
RECURSIVE RowCenters(_, _, _, _)
RowCenters(lng, lat, maxLng, currentStepLng) ==
    IF lng < maxLng
    THEN <<[lng |-> lng, lat |-> lat]>> \o RowCenters(lng + currentStepLng, lat, maxLng, currentStepLng)
    ELSE <<>>

\* the outer loop with the longitude step of the equator in every row
RECURSIVE GridRows_EquatorStep(_, _, _, _, _)
GridRows_EquatorStep(lat, startLng, maxLng, maxLat, stepLat) ==
    IF lat < maxLat
    THEN RowCenters(startLng, lat, maxLng, metersToDegreesLng(CHIP_SIZE_METERS, 0))
         \o GridRows_EquatorStep(lat + stepLat, startLng, maxLng, maxLat, stepLat)
    ELSE <<>>

\* the outer loop: for (lat = startLat; lat < maxLat; lat += stepLat)
RECURSIVE GridRows(_, _, _, _, _)
GridRows(lat, startLng, maxLng, maxLat, stepLat) ==
    IF lat < maxLat
    THEN RowCenters(startLng, lat, maxLng, metersToDegreesLng(CHIP_SIZE_METERS, lat))
         \o GridRows(lat + stepLat, startLng, maxLng, maxLat, stepLat)
    ELSE <<>>

generateChipGrid(box) ==
    LET minLng == box[1]
        minLat == box[2]
        maxLng == box[3]
        maxLat == box[4]
        stepLat == metersToDegreesLat(CHIP_SIZE_METERS)
        centerLat == (minLat + maxLat) \div 2
        stepLng == metersToDegreesLng(CHIP_SIZE_METERS, centerLat)
        startLat == minLat + stepLat \div 2
        startLng == minLng + stepLng \div 2
    IN  GridRows(startLat, startLng, maxLng, maxLat, stepLat)

\* the inner loop of the row at lat never ends: it is entered (startLng <
\* maxLng) and lng += currentStepLng does not increase lng, so lng < maxLng
\* stays true and centers.push goes on
RowRunsAway(lat, startLng, maxLng) ==
    startLng < maxLng /\ metersToDegreesLng(CHIP_SIZE_METERS, lat) <= 0

\* the outer loop reaches a row whose inner loop never ends
RECURSIVE RowsRunAway(_, _, _, _, _)
RowsRunAway(lat, startLng, maxLng, maxLat, stepLat) ==
    IF lat < maxLat
    THEN RowRunsAway(lat, startLng, maxLng)
         \/ RowsRunAway(lat + stepLat, startLng, maxLng, maxLat, stepLat)
    ELSE FALSE

\* generateChipGrid(box) does not return
scanRunsAway(box) ==
    LET stepLat == metersToDegreesLat(CHIP_SIZE_METERS)
        centerLat == (box[2] + box[4]) \div 2
        stepLng == metersToDegreesLng(CHIP_SIZE_METERS, centerLat)
    IN  RowsRunAway(box[2] + stepLat \div 2, box[1] + stepLng \div 2, box[3], box[4], stepLat)

\* a call of generateChipGrid: the centres returned, or the fact that the
\* scan does not finish
scanChipGrid(box) ==
    IF scanRunsAway(box) THEN [finished |-> FALSE, centers |-> <<>>]
    ELSE [finished |-> TRUE, centers |-> generateChipGrid(box)]

\* the filter loop over the candidate centres, from the i-th on
RECURSIVE IntersectingChips(_, _, _)
IntersectingChips(chipCenters, ring, i) ==
    IF i > Len(chipCenters) THEN <<>>
    ELSE LET center == chipCenters[i]
             chipGeometry == createChipFromCenter(center.lng, center.lat)
         IN  (IF booleanIntersects(chipGeometry, ring)
              THEN <<[geometry |-> chipGeometry, center |-> center]>>
              ELSE <<>>)
             \o IntersectingChips(chipCenters, ring, i + 1)

\* the filter loop keeping every candidate
RECURSIVE IntersectingChips_All(_, _, _)
IntersectingChips_All(chipCenters, ring, i) ==
    IF i > Len(chipCenters) THEN <<>>
    ELSE LET center == chipCenters[i]
             chipGeometry == createChipFromCenter(center.lng, center.lat)
         IN  <<[geometry |-> chipGeometry, center |-> center]>>
             \o IntersectingChips_All(chipCenters, ring, i + 1)

\* generateChipsForPolygon without the intersection test
generateChipsForPolygon_Unfiltered(polygonGeometry) ==
    IF polygonThrows(polygonGeometry.coordinates)
    THEN [threw |-> TRUE, runaway |-> FALSE, chips |-> <<>>]
    ELSE LET ring == polygonGeometry.coordinates[1]
             box == bbox(ring)
             expandLat == metersToDegreesLat(CHIP_SIZE_METERS)
             centerLat == (box[2] + box[4]) \div 2
             expandLng == metersToDegreesLng(CHIP_SIZE_METERS, centerLat)
             expandedBbox == << box[1] - expandLng, box[2] - expandLat,
                                box[3] + expandLng, box[4] + expandLat >>
         IN  IF scanRunsAway(expandedBbox)
             THEN [threw |-> FALSE, runaway |-> TRUE, chips |-> <<>>]
             ELSE [threw |-> FALSE, runaway |-> FALSE,
                   chips |-> IntersectingChips_All(generateChipGrid(expandedBbox), ring, 1)]

\* the value returned, the fact that turf.polygon threw, or the fact that
\* the scan of generateChipGrid does not finish (runaway)
generateChipsForPolygon(polygonGeometry) ==
    IF polygonThrows(polygonGeometry.coordinates)
    THEN [threw |-> TRUE, runaway |-> FALSE, chips |-> <<>>]
    ELSE LET ring == polygonGeometry.coordinates[1]
             box == bbox(ring)
             expandLat == metersToDegreesLat(CHIP_SIZE_METERS)
             centerLat == (box[2] + box[4]) \div 2
             expandLng == metersToDegreesLng(CHIP_SIZE_METERS, centerLat)
             expandedBbox == << box[1] - expandLng, box[2] - expandLat,
                                box[3] + expandLng, box[4] + expandLat >>
         IN  IF scanRunsAway(expandedBbox)
             THEN [threw |-> FALSE, runaway |-> TRUE, chips |-> <<>>]
             ELSE [threw |-> FALSE, runaway |-> FALSE,
                   chips |-> IntersectingChips(generateChipGrid(expandedBbox), ring, 1)]


----------------------------------------------------------------------------
(* Map clicks.  e.lngLat of a click is any point of the map; Mapbox's      *)
(* Web-Mercator view shows latitudes between about -85 and 85 degrees.     *)

\* the rows (multiples of the chip height) the clicks fall around
ClickRows == {0, 2609, 3479, -2609}

\* offsets of a click from the centre line of its row
ClickLatOffsets == {0, 1000, -900}

ClickLats == {r * metersToDegreesLat(CHIP_SIZE_METERS) + o : r \in ClickRows, o \in ClickLatOffsets}

ClickLngs == {0, 1100, 30000, 1113200, -1113200, 11132000}

ClickPoints == [lng : ClickLngs, lat : ClickLats]

InitSnap ==
    /\ click \in ClickPoints
    /\ snapped = NoPoint
    /\ resnapped = NoPoint
    /\ earlier = NoPoint
    /\ chipRing = <<>>
    /\ InitCover
    /\ InitLabels
    /\ InitGrid
    /\ InitConv
    /\ InitUi
    /\ InitNet
    /\ InitSide
    /\ InitPage

\* handleClick: the click is snapped to the grid
SnapClick ==
    /\ snapped = NoPoint
    /\ snapped' = snapToChipGrid(click.lng, click.lat)
    /\ UNCHANGED <<click, resnapped, earlier, chipRing>>
    /\ UNCHANGED <<coverVars, labelVars, pageVars>>
    /\ UNCHANGED <<gridVars, convVars, uiVars, netVars, sideVars>>

\* the snapped centre is snapped again
Resnap ==
    /\ snapped # NoPoint
    /\ resnapped = NoPoint
    /\ resnapped' = snapToChipGrid(snapped.lng, snapped.lat)
    /\ UNCHANGED <<click, snapped, earlier, chipRing>>
    /\ UNCHANGED <<coverVars, labelVars, pageVars>>
    /\ UNCHANGED <<gridVars, convVars, uiVars, netVars, sideVars>>

\* onNegativeChipPlace(snappedCenter.lng, snappedCenter.lat): the chip's ring
PlaceChip ==
    /\ snapped # NoPoint
    /\ chipRing = <<>>
    /\ chipRing' = createChipFromCenter(snapped.lng, snapped.lat)
    /\ UNCHANGED <<click, snapped, resnapped, earlier>>
    /\ UNCHANGED <<coverVars, labelVars, pageVars>>
    /\ UNCHANGED <<gridVars, convVars, uiVars, netVars, sideVars>>

\* the next click; the centre of the chip placed before is kept in earlier
NextClick ==
    /\ snapped # NoPoint
    /\ earlier = NoPoint
    /\ \E p \in ClickPoints :
        /\ click' = p
        /\ earlier' = snapped
        /\ snapped' = NoPoint
        /\ resnapped' = NoPoint
        /\ chipRing' = <<>>
    /\ UNCHANGED <<coverVars, labelVars, pageVars>>
    /\ UNCHANGED <<gridVars, convVars, uiVars, netVars, sideVars>>

NextSnap == SnapClick \/ Resnap \/ PlaceChip \/ NextClick

SpecSnap == InitSnap /\ [][NextSnap]_vars

----------------------------------------------------------------------------
(* Map clicks near the east and west edges of their snap cell: the          *)
(* longitude of such a click is a whole number of longitude steps of the    *)
(* clicked latitude plus or minus just under half a step.                   *)

\* the snap cells, counted from the prime meridian, the clicks fall in
EdgeColumns == {0, 3, -5}

EdgeClicksAt(lat) ==
    LET step == metersToDegreesLng(CHIP_SIZE_METERS, lat)
    IN  { [lng |-> k * step + side * ((step \div 2) - 1), lat |-> lat] :
            k \in EdgeColumns, side \in {-1, 1} }

EdgeClicks == UNION { EdgeClicksAt(lat) : lat \in ClickLats }

InitEdge ==
    /\ click \in EdgeClicks
    /\ snapped = NoPoint
    /\ resnapped = NoPoint
    /\ earlier = NoPoint
    /\ chipRing = <<>>
    /\ InitCover
    /\ InitLabels
    /\ InitGrid
    /\ InitConv
    /\ InitUi
    /\ InitNet
    /\ InitSide
    /\ InitPage

\* the next click, after the chip of the click before was placed
NextEdgeClick ==
    /\ chipRing # <<>>
    /\ click' \in EdgeClicks
    /\ snapped' = NoPoint
    /\ chipRing' = <<>>
    /\ UNCHANGED <<resnapped, earlier>>
    /\ UNCHANGED <<coverVars, labelVars, pageVars>>
    /\ UNCHANGED <<gridVars, convVars, uiVars, netVars, sideVars>>

NextEdge == SnapClick \/ PlaceChip \/ NextEdgeClick

SpecEdge == InitEdge /\ [][NextEdge]_vars

----------------------------------------------------------------------------
(* Polygons drawn on the map and handed to generateChipsForPolygon *)

\* where a drawn polygon starts: a row, an offset from the row's centre line
\* and a longitude
DrawRows == {0, 2609, 3479, -2609}
DrawLatOffsets == {-1000, 300}
DrawLngs == {-1113200, 700, 2226400}

\* the shapes drawn: triangles, as offsets of the vertices from the start
DrawShapes ==
    { << <<0, 0>>, <<40, 0>>, <<0, 40>> >>,
      << <<0, 0>>, <<0, 40>>, <<40, 0>> >>,
      << <<0, 0>>, <<30, 10>>, <<10, 30>> >>,
      << <<0, 0>>, <<7000, 500>>, <<3000, 2900>> >>,
      << <<0, 0>>, <<20000, 0>>, <<0, 6000>> >> }

\* the closed ring of a shape drawn from (lng, lat)
RingAt(shape, lng, lat) ==
    [i \in 1..(Len(shape) + 1) |->
        LET v == shape[IF i > Len(shape) THEN 1 ELSE i]
        IN  <<lng + v[1], lat + v[2]>>]

DrawnPolygons ==
    { [type |-> "Polygon",
       coordinates |-> <<RingAt(sh, x, r * metersToDegreesLat(CHIP_SIZE_METERS) + o)>>] :
        sh \in DrawShapes, x \in DrawLngs, r \in DrawRows, o \in DrawLatOffsets }

InitDraw ==
    /\ drawn \in DrawnPolygons
    /\ covering = NoResult
    /\ InitGeomIdle
    /\ InitLabels
    /\ InitGrid
    /\ InitConv
    /\ InitUi
    /\ InitNet
    /\ InitSide
    /\ InitPage

\* generateChipsForPolygon(drawn)
Generate ==
    /\ covering = NoResult
    /\ covering' = generateChipsForPolygon(drawn)
    /\ UNCHANGED <<drawn, geomVars, labelVars, pageVars>>
    /\ UNCHANGED <<gridVars, convVars, uiVars, netVars, sideVars>>

\* another polygon is drawn
Redraw ==
    /\ covering # NoResult
    /\ drawn' \in DrawnPolygons
    /\ covering' = NoResult
    /\ UNCHANGED <<geomVars, labelVars, pageVars>>
    /\ UNCHANGED <<gridVars, convVars, uiVars, netVars, sideVars>>

NextCover == Generate \/ Redraw

SpecCover == InitDraw /\ [][NextCover]_vars

----------------------------------------------------------------------------
(* Polygons drawn next to the north and south poles: all vertices have      *)
(* latitudes within [-90, 90] degrees.                                      *)

\* the latitudes the polar polygons start at: a degree from the pole, and
\* less than half a chip from it
PolarLats == {Pole - UnitsPerDegree, Pole - 1000, Pole - 300, Pole - 50}

\* the shapes drawn there: triangles that stay below the pole, the last one
\* with a vertex on the pole when it starts 50 units from it
PolarShapes ==
    { << <<0, 0>>, <<40, 0>>, <<0, 40>> >>,
      << <<0, 0>>, <<0, 40>>, <<40, 0>> >>,
      << <<0, 0>>, <<30, 10>>, <<10, 30>> >>,
      << <<0, 0>>, <<7000, 20>>, <<3000, 45>> >>,
      << <<0, 0>>, <<20000, 0>>, <<0, 50>> >> }

\* the ring of a shape mirrored to the southern hemisphere
Mirror(ring) == [i \in 1..Len(ring) |-> <<ring[i][1], -ring[i][2]>>]

PolarPolygons ==
    LET north == { RingAt(sh, x, l) : sh \in PolarShapes, x \in DrawLngs, l \in PolarLats }
    IN  { [type |-> "Polygon", coordinates |-> <<r>>] :
            r \in north \cup { Mirror(n) : n \in north } }

InitPolar ==
    /\ drawn \in PolarPolygons
    /\ covering = NoResult
    /\ InitGeomIdle
    /\ InitLabels
    /\ InitGrid
    /\ InitConv
    /\ InitUi
    /\ InitNet
    /\ InitSide
    /\ InitPage

\* another polygon is drawn next to a pole
RedrawPolar ==
    /\ covering # NoResult
    /\ drawn' \in PolarPolygons
    /\ covering' = NoResult
    /\ UNCHANGED <<geomVars, labelVars, pageVars>>
    /\ UNCHANGED <<gridVars, convVars, uiVars, netVars, sideVars>>

NextPolar == Generate \/ RedrawPolar

SpecPolar == InitPolar /\ [][NextPolar]_vars

----------------------------------------------------------------------------
(* Geometries that are not polygons: an empty ring, rings of fewer than     *)
(* four positions, and closed rings of four or five positions that enclose  *)
(* no area.                                                                 *)

\* the rings, as offsets of their positions from a start
DegenerateShapes ==
    { <<>>,
      << <<0, 0>> >>,
      << <<0, 0>>, <<0, 0>> >>,
      << <<0, 0>>, <<40, 0>>, <<0, 0>> >>,
      << <<0, 0>>, <<40, 0>>, <<0, 40>> >>,
      << <<0, 0>>, <<0, 0>>, <<0, 0>>, <<0, 0>> >>,
      << <<0, 0>>, <<40, 0>>, <<40, 0>>, <<0, 0>> >>,
      << <<0, 0>>, <<20, 20>>, <<40, 40>>, <<0, 0>> >>,
      << <<0, 0>>, <<3000, 0>>, <<7000, 0>>, <<3000, 0>>, <<0, 0>> >> }

\* the ring of a shape placed at (lng, lat), as it is (not closed)
PlacedAt(shape, lng, lat) ==
    [i \in 1..Len(shape) |-> <<lng + shape[i][1], lat + shape[i][2]>>]

DegeneratePolygons ==
    { [type |-> "Polygon",
       coordinates |-> <<PlacedAt(sh, x, r * metersToDegreesLat(CHIP_SIZE_METERS) + o)>>] :
        sh \in DegenerateShapes, x \in DrawLngs, r \in DrawRows, o \in DrawLatOffsets }

InitDegenerate ==
    /\ drawn \in DegeneratePolygons
    /\ covering = NoResult
    /\ InitGeomIdle
    /\ InitLabels
    /\ InitGrid
    /\ InitConv
    /\ InitUi
    /\ InitNet
    /\ InitSide
    /\ InitPage

\* the next geometry
RedrawDegenerate ==
    /\ covering # NoResult
    /\ drawn' \in DegeneratePolygons
    /\ covering' = NoResult
    /\ UNCHANGED <<geomVars, labelVars, pageVars>>
    /\ UNCHANGED <<gridVars, convVars, uiVars, netVars, sideVars>>

NextDegenerate == Generate \/ RedrawDegenerate

SpecDegenerate == InitDegenerate /\ [][NextDegenerate]_vars

----------------------------------------------------------------------------
(* Polygons drawn at high latitudes that span some tenths of a degree of    *)
(* latitude: the longitude step of their northern rows is a multiple of     *)
(* the step at the middle latitude of their bounding box.                   *)

\* the south edges of the tall polygons
TallLats == {88 * UnitsPerDegree, 89 * UnitsPerDegree, 89 * UnitsPerDegree + 44528}

TallLngs == {-1113200, 700}

\* rectangles and triangles 0.2 and 0.4 degree high, of several widths
TallShapes ==
    { << <<0, 0>>, <<w, 0>>, <<w, h>>, <<0, h>> >> :
        w \in {100000, 189000, 190000, 300000}, h \in {22264, 44528} }
    \cup
    { << <<0, 0>>, <<w, h>>, <<0, h>> >> : w \in {100000, 225000}, h \in {22264, 44528} }

TallPolygons ==
    { [type |-> "Polygon", coordinates |-> <<RingAt(sh, x, l)>>] :
        sh \in TallShapes, x \in TallLngs, l \in TallLats }

InitTall ==
    /\ drawn \in TallPolygons
    /\ covering = NoResult
    /\ InitGeomIdle
    /\ InitLabels
    /\ InitGrid
    /\ InitConv
    /\ InitUi
    /\ InitNet
    /\ InitSide
    /\ InitPage

\* another tall polygon is drawn
RedrawTall ==
    /\ covering # NoResult
    /\ drawn' \in TallPolygons
    /\ covering' = NoResult
    /\ UNCHANGED <<geomVars, labelVars, pageVars>>
    /\ UNCHANGED <<gridVars, convVars, uiVars, netVars, sideVars>>

NextTall == Generate \/ RedrawTall

SpecTall == InitTall /\ [][NextTall]_vars

----------------------------------------------------------------------------
(* generateChipGrid on its own: bounding boxes of several sizes, at the     *)
(* equator, at middle latitudes, up to the pole and across it (the box      *)
(* generateChipsForPolygon passes is one chip larger than the polygon).     *)

\* the south edges of the boxes
GridMinLats == {0, 45 * UnitsPerDegree + 300, -60 * UnitsPerDegree, 89 * UnitsPerDegree,
                Pole - 2560, Pole - 1000}

\* the heights of the boxes: too low for any row, one row, one row ending
\* on the north edge, several rows
GridHeights == {1000, 2560, 3840, 6000}

GridMinLngs == {-1113200, 700}

\* the widths of the boxes at a south edge: too narrow for any centre, one
\* step and a half when the step is that of the first row, several steps
\* at middle latitudes
GridWidths(minLat) ==
    {1000, 3 * (Abs(metersToDegreesLng(CHIP_SIZE_METERS, minLat + 1280)) \div 2), 12000}

GridBoxesAt(minLat) ==
    { <<minLng, minLat, minLng + w, minLat + h>> :
        minLng \in GridMinLngs, h \in GridHeights, w \in GridWidths(minLat) }

GridBoxes == UNION { GridBoxesAt(minLat) : minLat \in GridMinLats }

InitScan ==
    /\ InitGeomIdle
    /\ InitCover
    /\ InitLabels
    /\ InitPage
    /\ InitConv
    /\ InitUi
    /\ InitNet
    /\ InitSide
    /\ gridBox \in GridBoxes
    /\ grid = NoResult

\* generateChipGrid(bbox)
ScanGrid ==
    /\ grid = NoResult
    /\ grid' = scanChipGrid(gridBox)
    /\ UNCHANGED <<gridBox, geomVars, coverVars, convVars, labelVars, pageVars, uiVars, netVars, sideVars>>

\* the next bounding box
NextBox ==
    /\ grid # NoResult
    /\ gridBox' \in GridBoxes
    /\ grid' = NoResult
    /\ UNCHANGED <<geomVars, coverVars, convVars, labelVars, pageVars, uiVars, netVars, sideVars>>

NextGrid ==
    \/ ScanGrid
    \/ NextBox

SpecGrid == InitScan /\ [][NextGrid]_vars

----------------------------------------------------------------------------
(* metersToDegreesLng on its own: distances and latitudes from the equator  *)
(* to 89 degrees on both sides.  The latitudes other than 0 are 2 degrees   *)
(* or more from the equator, where the cosine differs from 1 by more than   *)
(* the resolution of the reciprocal.                                        *)

ConvMeters == {0, 1280, 2560, 3840}

ConvLatitudes ==
    {0} \cup { s * l : s \in {-1, 1},
                      l \in { 2 * UnitsPerDegree, 10 * UnitsPerDegree + 5000,
                              30 * UnitsPerDegree, 45 * UnitsPerDegree + 77,
                              60 * UnitsPerDegree, 75 * UnitsPerDegree + 100000,
                              85 * UnitsPerDegree, 89 * UnitsPerDegree - 1 } }

InitConvert ==
    /\ InitGeomIdle
    /\ InitCover
    /\ InitGrid
    /\ InitUi
    /\ InitNet
    /\ InitSide
    /\ InitLabels
    /\ InitPage
    /\ convMeters \in ConvMeters
    /\ convLatitude \in ConvLatitudes
    /\ convDegrees = NoResult

\* metersToDegreesLng(m, L), and metersToDegreesLng(m, 0) to compare it with
Convert ==
    /\ convDegrees = NoResult
    /\ convDegrees' = [atLatitude |-> metersToDegreesLng(convMeters, convLatitude),
                       atEquator |-> metersToDegreesLng(convMeters, 0)]
    /\ UNCHANGED <<convMeters, convLatitude, geomVars, coverVars, gridVars, labelVars, pageVars, uiVars, netVars, sideVars>>

\* the next distance and latitude
NextInput ==
    /\ convDegrees # NoResult
    /\ convMeters' \in ConvMeters
    /\ convLatitude' \in ConvLatitudes
    /\ convDegrees' = NoResult
    /\ UNCHANGED <<geomVars, coverVars, gridVars, labelVars, pageVars, uiVars, netVars, sideVars>>

NextConvert ==
    \/ Convert
    \/ NextInput

SpecConvert == InitConvert /\ [][NextConvert]_vars

----------------------------------------------------------------------------
(* useLabels.js: ids, the id counters and the label state.  An id is the    *)
(* text prefix-<digits>; the digits are kept as a sequence of decimal       *)
(* digits, written by the template literal and read back by                 *)
(* extractIdNumber.  createdAt (the time of creation) is not modelled: no   *)
(* operation reads it.                                                      *)

\* String(n): the decimal digits of n >= 0, no leading zero
RECURSIVE Digits(_)
Digits(n) == IF n < 10 THEN <<n>> ELSE Digits(n \div 10) \o <<n % 10>>

\* parseInt(digits, 10)
RECURSIVE ParseInt(_)
ParseInt(ds) ==
    IF ds = <<>> THEN 0 ELSE 10 * ParseInt(SubSeq(ds, 1, Len(ds) - 1)) + ds[Len(ds)]

\* `polygon-${++polygonIdCounter}`, given the incremented counter
generatePolygonId(counter) == [prefix |-> "polygon", digits |-> Digits(counter)]

\* `chip-${++chipIdCounter}`, given the incremented counter
generateChipId(counter) == [prefix |-> "chip", digits |-> Digits(counter)]

\* id.match(/\d+$/), then parseInt; 0 without digits
extractIdNumber(id) == IF id.digits = <<>> THEN 0 ELSE ParseInt(id.digits)

\* the largest extractIdNumber over a sequence of labels, from 0
RECURSIVE MaxIdNumber(_, _)
MaxIdNumber(labels, i) ==
    IF i > Len(labels) THEN 0
    ELSE Max2(extractIdNumber(labels[i].id), MaxIdNumber(labels, i + 1))

\* the counters syncIdCounters leaves: <<chipIdCounter, polygonIdCounter>>
syncIdCounters(loadedChips, loadedPolygons) ==
    << MaxIdNumber(loadedChips, 1), MaxIdNumber(loadedPolygons, 1) >>

\* prev.filter(keep)
RECURSIVE Filter(_, _, _)
Filter(seq, keep(_), i) ==
    IF i > Len(seq) THEN <<>>
    ELSE (IF keep(seq[i]) THEN <<seq[i]>> ELSE <<>>) \o Filter(seq, keep, i + 1)

\* the label state is explored while the id counters are below MaxCounter
MaxCounter == 3

\* a loaded id number next to which the ids get a second digit
LoadedHigh == 9

\* the counter values from which the model lets an id be generated: the
\* first MaxCounter ids, and the ids that follow LoadedHigh
CanCount(counter, n) ==
    \/ counter + n <= MaxCounter
    \/ LoadedHigh <= counter /\ counter + n < LoadedHigh + MaxCounter

\* the longest chip list the model lets the label state hold
MaxChips == 3

\* the most polygons drawn in one annotation
MaxPending == 2

\* the centres chips are placed at: clicks snapped by handleClick
LabelCenters == { snapToChipGrid(30000, 6680040), snapToChipGrid(0, 0) }

\* the polygons drawn during an annotation
PolygonGeometries ==
    { [type |-> "Polygon", coordinates |-> <<RingAt(<< <<0, 0>>, <<40, 0>>, <<0, 40>> >>, 100, 200)>>] }

PendingLists == UNION { [1..n -> PolygonGeometries] : n \in 0..MaxPending }

\* the record of the operation that made the last step: its name, its
\* argument and the numbers of chips and polygons it started from
Op(name, arg) ==
    [name |-> name, arg |-> arg, chipCount |-> Len(chips), polygonCount |-> Len(polygons)]

\* the polygon records addPositiveChipWithPolygons maps the geometries to
NewPolygons(chipId, polygonGeometries) ==
    [k \in 1..Len(polygonGeometries) |->
        [id |-> generatePolygonId(polygonIdCounter + k),
         chipId |-> chipId,
         geometry |-> polygonGeometries[k]]]

addPositiveChipWithPolygons(center, polygonGeometries) ==
    LET chipId == generateChipId(chipIdCounter + 1)
        newChip == [id |-> chipId,
                    geometry |-> createChipFromCenter(center.lng, center.lat),
                    center |-> center,
                    type |-> "positive"]
    IN  /\ chipIdCounter' = chipIdCounter + 1
        /\ polygonIdCounter' = polygonIdCounter + Len(polygonGeometries)
        /\ chips' = Append(chips, newChip)
        /\ polygons' = polygons \o NewPolygons(chipId, polygonGeometries)

addNegativeChip(lng, lat) ==
    LET newChip == [id |-> generateChipId(chipIdCounter + 1),
                    geometry |-> createChipFromCenter(lng, lat),
                    center |-> [lng |-> lng, lat |-> lat],
                    type |-> "negative"]
    IN  /\ chipIdCounter' = chipIdCounter + 1
        /\ chips' = Append(chips, newChip)
        /\ UNCHANGED <<polygons, polygonIdCounter>>

\* deleteChip that leaves the chip's polygons behind
deleteChip_NoCascade(chipId) ==
    LET keepChip(c) == c.id # chipId
    IN  /\ chips' = Filter(chips, keepChip, 1)
        /\ UNCHANGED <<polygons, chipIdCounter, polygonIdCounter>>

deleteChip(chipId) ==
    LET keepChip(c) == c.id # chipId
        keepPolygon(p) == p.chipId # chipId
    IN  /\ chips' = Filter(chips, keepChip, 1)
        /\ polygons' = Filter(polygons, keepPolygon, 1)
        /\ UNCHANGED <<chipIdCounter, polygonIdCounter>>

deletePolygon(polygonId) ==
    LET keepPolygon(p) == p.id # polygonId
    IN  /\ polygons' = Filter(polygons, keepPolygon, 1)
        /\ UNCHANGED <<chips, chipIdCounter, polygonIdCounter>>

\* clearAll that empties the chips only
clearAll_ChipsOnly ==
    /\ chips' = <<>>
    /\ UNCHANGED <<polygons, chipIdCounter, polygonIdCounter>>

clearAll ==
    /\ polygons' = <<>>
    /\ chips' = <<>>
    /\ UNCHANGED <<chipIdCounter, polygonIdCounter>>

\* setInitialState that leaves the id counters where they are
setInitialState_NoSync(loadedChips, loadedPolygons) ==
    /\ chips' = loadedChips
    /\ polygons' = loadedPolygons
    /\ UNCHANGED <<chipIdCounter, polygonIdCounter>>

setInitialState(loadedChips, loadedPolygons) ==
    /\ chipIdCounter' = syncIdCounters(loadedChips, loadedPolygons)[1]
    /\ polygonIdCounter' = syncIdCounters(loadedChips, loadedPolygons)[2]
    /\ chips' = loadedChips
    /\ polygons' = loadedPolygons

\* the ids of the labels of a sequence
Ids(labels) == { labels[i].id : i \in 1..Len(labels) }

(* The operations as steps of the hook's user *)

AddPositive ==
    /\ CanCount(chipIdCounter, 1)
    /\ Len(chips) < MaxChips
    /\ \E center \in LabelCenters, pending \in PendingLists :
        /\ Len(pending) = 0 \/ CanCount(polygonIdCounter, Len(pending))
        /\ addPositiveChipWithPolygons(center, pending)
        /\ lastOp' = Op("addPositiveChipWithPolygons", generateChipId(chipIdCounter + 1))
    /\ UNCHANGED <<geomVars, coverVars, projectId, stored>>
    /\ UNCHANGED <<gridVars, convVars, uiVars, netVars, sideVars>>

AddNegative ==
    /\ CanCount(chipIdCounter, 1)
    /\ Len(chips) < MaxChips
    /\ \E center \in LabelCenters :
        /\ addNegativeChip(center.lng, center.lat)
        /\ lastOp' = Op("addNegativeChip", generateChipId(chipIdCounter + 1))
    /\ UNCHANGED <<geomVars, coverVars, projectId, stored>>
    /\ UNCHANGED <<gridVars, convVars, uiVars, netVars, sideVars>>

DeleteChip ==
    /\ \E id \in Ids(chips) :
        /\ deleteChip(id)
        /\ lastOp' = Op("deleteChip", id)
    /\ UNCHANGED <<geomVars, coverVars, projectId, stored>>
    /\ UNCHANGED <<gridVars, convVars, uiVars, netVars, sideVars>>

DeletePolygon ==
    /\ \E id \in Ids(polygons) :
        /\ deletePolygon(id)
        /\ lastOp' = Op("deletePolygon", id)
    /\ UNCHANGED <<geomVars, coverVars, projectId, stored>>
    /\ UNCHANGED <<gridVars, convVars, uiVars, netVars, sideVars>>

ClearAll ==
    /\ chips # <<>>
    /\ clearAll
    /\ lastOp' = Op("clearAll", None)
    /\ UNCHANGED <<geomVars, coverVars, projectId, stored>>
    /\ UNCHANGED <<gridVars, convVars, uiVars, netVars, sideVars>>

InitLabelsSpec ==
    /\ InitGeomIdle
    /\ InitCover
    /\ InitLabels
    /\ InitGrid
    /\ InitConv
    /\ InitUi
    /\ InitNet
    /\ InitSide
    /\ InitPage

NextLabels == AddPositive \/ AddNegative \/ DeleteChip \/ DeletePolygon \/ ClearAll

\* the hook from the empty label set, without loading
SpecLabels == InitLabelsSpec /\ [][NextLabels]_vars

----------------------------------------------------------------------------
(* chipUtils.js chipsToFeatureCollection and the effect of MapContainer.jsx  *)
(* that hands the chips to the two chip layers of the map.                   *)

\* chip => feature, of chipsToFeatureCollection; the chips of useLabels.js
\* have no polygonId, so the property is undefined
chipFeature(chip) ==
    [type |-> "Feature",
     id |-> chip.id,
     properties |-> [id |-> chip.id, type |-> chip.type, polygonId |-> None],
     geometry |-> chip.geometry]

\* chipsToFeatureCollection that ignores the type asked for
chipsToFeatureCollection_NoFilter(chipList, type) ==
    LET filteredChips == chipList
    IN  [type |-> "FeatureCollection",
         features |-> [i \in 1..Len(filteredChips) |-> chipFeature(filteredChips[i])]]

chipsToFeatureCollection(chipList, type) ==
    LET ofType(c) == c.type = type
        filteredChips == IF type # None THEN Filter(chipList, ofType, 1) ELSE chipList
    IN  [type |-> "FeatureCollection",
         features |-> [i \in 1..Len(filteredChips) |-> chipFeature(filteredChips[i])]]

\* the layers show the chips of the last render
layersCurrent ==
    /\ positiveSource = chipsToFeatureCollection(chips, "positive")
    /\ negativeSource = chipsToFeatureCollection(chips, "negative")

\* the effect on [chips, mapLoaded], run after a render with new chips and
\* before the next event is handled: setData on the two chip sources
updateChipLayers ==
    /\ ~layersCurrent
    /\ positiveSource' = chipsToFeatureCollection(chips, "positive")
    /\ negativeSource' = chipsToFeatureCollection(chips, "negative")
    /\ lastOp' = Op("chipsToFeatureCollection", None)
    /\ UNCHANGED <<geomVars, coverVars, gridVars, convVars, labelVars, projectId, stored,
                   uiVars, netVars, drawVars, loadVars, pollVars>>

\* an operation of the hook, once the effects of the render before have run
changeLabels ==
    /\ layersCurrent
    /\ NextLabels

NextLayers == changeLabels \/ updateChipLayers

\* the hook's chips, and the map's layers following them
SpecLayers == InitLabelsSpec /\ [][NextLayers]_vars

(* Loading.  setInitialState is called with labels the server returned: ids *)
(* of the form chip-<n> and polygon-<n>, pairwise distinct, each polygon of *)
(* a positive chip.                                                         *)

LoadedNumbers == {2, LoadedHigh}

\* the numbers of set S in increasing order
RECURSIVE Ascending(_)
Ascending(S) ==
    IF S = {} THEN <<>>
    ELSE LET m == CHOOSE x \in S : \A y \in S : x <= y
         IN  <<m>> \o Ascending(S \ {m})

\* the chips loaded for the numbers of S, those of P being positive
LoadedChips(S, P) ==
    LET ns == Ascending(S)
        center == CHOOSE c \in LabelCenters : TRUE
    IN  [k \in 1..Len(ns) |->
            [id |-> generateChipId(ns[k]),
             geometry |-> createChipFromCenter(center.lng, center.lat),
             center |-> center,
             type |-> IF ns[k] \in P THEN "positive" ELSE "negative"]]

\* one polygon for each positive chip, numbered like its chip
LoadedPolygons(P) ==
    LET ns == Ascending(P)
    IN  [k \in 1..Len(ns) |->
            [id |-> generatePolygonId(ns[k]),
             chipId |-> generateChipId(ns[k]),
             geometry |-> CHOOSE g \in PolygonGeometries : TRUE]]

\* the label sets a load may return
LoadableLabels ==
    UNION { { [chips |-> LoadedChips(S, P), polygons |-> LoadedPolygons(P)] : P \in SUBSET S } :
            S \in SUBSET LoadedNumbers }

SetInitialState ==
    /\ \E loaded \in LoadableLabels :
            /\ setInitialState(loaded.chips, loaded.polygons)
            /\ lastOp' = Op("setInitialState", None)
    /\ UNCHANGED <<geomVars, coverVars, projectId, stored>>
    /\ UNCHANGED <<gridVars, convVars, uiVars, netVars, sideVars>>

NextLoad == NextLabels \/ SetInitialState

\* the hook, with labels loaded at any time
SpecLoad == InitLabelsSpec /\ [][NextLoad]_vars

----------------------------------------------------------------------------
(* LabelingPage.jsx with the server behind services/api.js: projects are    *)
(* opened, labelled, saved and left.  stored[p] is what the server holds    *)
(* for project p (POST /api/projects/<id>/labels replaces it, GET returns   *)
(* it).                                                                     *)

\* the number of projects on the server
NumProjects == 2

Projects == 1..NumProjects

NoLabels == [chips |-> <<>>, polygons |-> <<>>]

InitProjects ==
    /\ InitGeomIdle
    /\ InitCover
    /\ InitLabels
    /\ InitGrid
    /\ InitConv
    /\ InitUi
    /\ InitNet
    /\ InitSide
    /\ projectId = 0
    /\ stored = [p \in Projects |-> NoLabels]
    /\ lastOp = NoOp

\* the page is mounted for /project/<p>: useLabels starts empty, loadProject
\* loads the labels of p and hands them to setInitialState
OpenProject ==
    /\ projectId = 0
    /\ \E p \in Projects :
        /\ projectId' = p
        /\ setInitialState(stored[p].chips, stored[p].polygons)
        /\ lastOp' = Op("setInitialState", p)
    /\ UNCHANGED <<geomVars, coverVars, stored>>
    /\ UNCHANGED <<gridVars, convVars, uiVars, netVars, sideVars>>

\* the auto-save effect: saveLabels(project.id, chips, polygons)
AutoSave ==
    /\ projectId # 0
    /\ stored[projectId] # [chips |-> chips, polygons |-> polygons]
    /\ stored' = [stored EXCEPT ![projectId] = [chips |-> chips, polygons |-> polygons]]
    /\ lastOp' = Op("saveLabels", projectId)
    /\ UNCHANGED <<geomVars, coverVars, labelVars, projectId>>
    /\ UNCHANGED <<gridVars, convVars, uiVars, netVars, sideVars>>

\* handleBackToProjects: navigate('/') unmounts the page; the hook's state
\* goes with it, the module-level counters stay
BackToProjects ==
    /\ projectId # 0
    /\ projectId' = 0
    /\ chips' = <<>>
    /\ polygons' = <<>>
    /\ lastOp' = Op("navigate", None)
    /\ UNCHANGED <<geomVars, coverVars, chipIdCounter, polygonIdCounter, stored>>
    /\ UNCHANGED <<gridVars, convVars, uiVars, netVars, sideVars>>

\* the click the chips of a project are placed by
ProjectCenter == snapToChipGrid(30000, 6680040)

\* onNegativeChipPlace = addNegativeChip, on a click in an open project
PlaceNegativeChip ==
    /\ projectId # 0
    /\ CanCount(chipIdCounter, 1)
    /\ Len(chips) < MaxChips
    /\ addNegativeChip(ProjectCenter.lng, ProjectCenter.lat)
    /\ lastOp' = Op("addNegativeChip", generateChipId(chipIdCounter + 1))
    /\ UNCHANGED <<geomVars, coverVars, projectId, stored>>
    /\ UNCHANGED <<gridVars, convVars, uiVars, netVars, sideVars>>

\* handleFinishAnnotation in an open project, with polygons pending:
\* addPositiveChipWithPolygons(activeChipCenter, pendingPolygons)
FinishAnnotation ==
    /\ projectId # 0
    /\ CanCount(chipIdCounter, 1)
    /\ Len(chips) < MaxChips
    /\ \E pending \in PendingLists :
        /\ Len(pending) > 0
        /\ CanCount(polygonIdCounter, Len(pending))
        /\ addPositiveChipWithPolygons(ProjectCenter, pending)
        /\ lastOp' = Op("addPositiveChipWithPolygons", generateChipId(chipIdCounter + 1))
    /\ UNCHANGED <<geomVars, coverVars, projectId, stored>>
    /\ UNCHANGED <<gridVars, convVars, uiVars, netVars, sideVars>>

NextProjects ==
    \/ OpenProject
    \/ AutoSave
    \/ BackToProjects
    \/ PlaceNegativeChip
    \/ FinishAnnotation

SpecProjects == InitProjects /\ [][NextProjects]_vars

----------------------------------------------------------------------------
(* LabelingPage.jsx: the mode, the selection, the blades and the delete     *)
(* modal of an open project.  Each handler is one step; handleBoundsDrawn   *)
(* is two, the part before the await of startInference and the part after   *)
(* it.                                                                      *)

\* the most startInference calls the model leaves unanswered at a time
MaxInferenceCalls == 1

\* the most chips the model creates in the page
PageChips == 2

\* the polygons pending when an annotation is finished in the page: none, or
\* one
PagePendingLists == { pending \in PendingLists : Len(pending) <= 1 }

\* the snapped centres of the clicks that start an annotation in the page
AnnotationCenters == { snapToChipGrid(0, 0) }

\* everything the handlers of the blades and of the modal leave alone
pageRest == <<geomVars, coverVars, gridVars, convVars, projectId, stored, netVars, sideVars>>

\* selectedChip: chips.find((c) => c.id === selectedChipId) || null
selectedChip ==
    IF \E i \in 1..Len(chips) : chips[i].id = selectedChipId
        THEN chips[CHOOSE i \in 1..Len(chips) : chips[i].id = selectedChipId]
        ELSE NoResult

\* the render condition of the Chip Details blade
ChipDetailsDisplayed ==
    /\ ~showExport /\ ~showTraining /\ ~showInference /\ ~showSample /\ ~showSelect
    /\ selectedChip # NoResult

\* ConfirmModal is a modal dialog: while it is open, the page under it takes
\* no click
Interactive == ~deleteModalOpen

InitPageOpen ==
    /\ InitGeomIdle
    /\ InitCover
    /\ InitLabels
    /\ InitGrid
    /\ InitConv
    /\ InitUi
    /\ InitNet
    /\ InitLayers
    /\ InitDrawBounds
    /\ jobKind = "training"
    /\ InitJob
    /\ projectId = 1
    /\ stored = [p \in Projects |-> NoLabels]
    /\ lastOp = NoOp
    /\ mounted = TRUE
    /\ project = 1
    /\ hasInitiallyLoaded = TRUE
    /\ loads = <<>>
    /\ labelsLoadedFor = 1

\* handleClick of the map in NEGATIVE mode: onNegativeChipPlace
handleClickNegative ==
    /\ Interactive
    /\ ~isAnnotating
    /\ labelType = "negative"
    /\ chipIdCounter < PageChips
    /\ addNegativeChip(ProjectCenter.lng, ProjectCenter.lat)
    /\ lastOp' = Op("addNegativeChip", generateChipId(chipIdCounter + 1))
    /\ UNCHANGED <<pageRest, uiVars>>

\* handleClick of the map in POSITIVE mode: onStartAnnotation with the
\* snapped centre of the click
handleStartAnnotation ==
    /\ Interactive
    /\ ~isAnnotating
    /\ labelType = "positive"
    /\ chipIdCounter < PageChips
    /\ \E center \in AnnotationCenters :
        /\ activeChipCenter' = center
        /\ lastOp' = Op("handleStartAnnotation", center)
    /\ isAnnotating' = TRUE
    /\ pendingPolygons' = <<>>
    /\ UNCHANGED <<pageRest, labelVars, labelType, selectedChipId, bladeVars, modalVars,
                   isDrawingBounds, inferenceCalls>>

\* handleDrawCreate of the map, for a polygon drawn while annotating:
\* handleAddPendingPolygon
handleAddPendingPolygon ==
    /\ Interactive
    /\ isAnnotating
    /\ Len(pendingPolygons) < MaxPending
    /\ \E geometry \in PolygonGeometries :
        /\ pendingPolygons' = Append(pendingPolygons, geometry)
        /\ lastOp' = Op("handleAddPendingPolygon", None)
    /\ UNCHANGED <<pageRest, labelVars, labelType, isAnnotating, activeChipCenter,
                   selectedChipId, bladeVars, modalVars, isDrawingBounds, inferenceCalls>>

\* handleFinishAnnotation that adds the chip without its polygons
handleFinishAnnotation_ChipOnly ==
    /\ Interactive
    /\ isAnnotating
    /\ showSample
    /\ IF activeChipCenter # NoPoint /\ Len(pendingPolygons) > 0
          THEN /\ addPositiveChipWithPolygons(activeChipCenter, <<>>)
               /\ lastOp' = Op("addPositiveChipWithPolygons", generateChipId(chipIdCounter + 1))
          ELSE /\ UNCHANGED labelVars
               /\ lastOp' = Op("handleFinishAnnotation", None)
    /\ isAnnotating' = FALSE
    /\ activeChipCenter' = NoPoint
    /\ pendingPolygons' = <<>>
    /\ UNCHANGED <<pageRest, labelType, selectedChipId, bladeVars, modalVars,
                   isDrawingBounds, inferenceCalls>>

\* handleFinishAnnotation, of the sample blade
handleFinishAnnotation ==
    /\ Interactive
    /\ isAnnotating
    /\ showSample
    /\ IF activeChipCenter # NoPoint /\ Len(pendingPolygons) > 0
          THEN /\ addPositiveChipWithPolygons(activeChipCenter, pendingPolygons)
               /\ lastOp' = Op("addPositiveChipWithPolygons", generateChipId(chipIdCounter + 1))
          ELSE /\ UNCHANGED labelVars
               /\ lastOp' = Op("handleFinishAnnotation", None)
    /\ isAnnotating' = FALSE
    /\ activeChipCenter' = NoPoint
    /\ pendingPolygons' = <<>>
    /\ UNCHANGED <<pageRest, labelType, selectedChipId, bladeVars, modalVars,
                   isDrawingBounds, inferenceCalls>>

\* handleCancelAnnotation that keeps the pending polygons
handleCancelAnnotation_KeepsPending ==
    /\ Interactive
    /\ isAnnotating
    /\ showSample
    /\ isAnnotating' = FALSE
    /\ activeChipCenter' = NoPoint
    /\ lastOp' = Op("handleCancelAnnotation", None)
    /\ UNCHANGED <<pageRest, labelVars, labelType, pendingPolygons, selectedChipId, bladeVars,
                   modalVars, isDrawingBounds, inferenceCalls>>

\* handleCancelAnnotation, of the sample blade
handleCancelAnnotation ==
    /\ Interactive
    /\ isAnnotating
    /\ showSample
    /\ isAnnotating' = FALSE
    /\ activeChipCenter' = NoPoint
    /\ pendingPolygons' = <<>>
    /\ lastOp' = Op("handleCancelAnnotation", None)
    /\ UNCHANGED <<pageRest, labelVars, labelType, selectedChipId, bladeVars, modalVars,
                   isDrawingBounds, inferenceCalls>>

\* handleChipSelect(chipId)
handleChipSelect(chipId) ==
    /\ cameFromExport' = showExport
    /\ selectedChipId' = chipId
    /\ showExport' = FALSE
    /\ UNCHANGED <<pageRest, labelVars, labelType, annotVars, showTraining, showInference,
                   showSample, showSelect, modalVars, isDrawingBounds, inferenceCalls>>

\* handleChipClick of the map: a click on a chip in SELECT mode
handleChipClick ==
    /\ Interactive
    /\ ~isAnnotating
    /\ labelType = "select"
    /\ \E id \in Ids(chips) :
        /\ handleChipSelect(id)
        /\ lastOp' = Op("handleChipClick", id)

\* handleMapClick of the map: a click beside the chips in SELECT mode
handleMapClick ==
    /\ Interactive
    /\ ~isAnnotating
    /\ labelType = "select"
    /\ handleChipSelect(NoChip)
    /\ lastOp' = Op("handleMapClick", NoChip)

\* a chip chosen in the list of the export blade
ExportChipSelect ==
    /\ Interactive
    /\ showExport
    /\ \E id \in Ids(chips) :
        /\ handleChipSelect(id)
        /\ lastOp' = Op("onChipSelect", id)

handleCloseBlade ==
    /\ Interactive
    /\ showExport \/ showTraining \/ showInference \/ showSample \/ showSelect
          \/ ChipDetailsDisplayed
    /\ selectedChipId' = NoChip
    /\ showExport' = FALSE
    /\ showTraining' = FALSE
    /\ showInference' = FALSE
    /\ showSample' = FALSE
    /\ showSelect' = FALSE
    /\ cameFromExport' = FALSE
    /\ labelType' = "select"
    /\ lastOp' = Op("handleCloseBlade", None)
    /\ UNCHANGED <<pageRest, labelVars, annotVars, modalVars, isDrawingBounds, inferenceCalls>>

handleBackToExport ==
    /\ Interactive
    /\ ChipDetailsDisplayed
    /\ cameFromExport
    /\ selectedChipId' = NoChip
    /\ showExport' = TRUE
    /\ showTraining' = FALSE
    /\ cameFromExport' = FALSE
    /\ lastOp' = Op("handleBackToExport", None)
    /\ UNCHANGED <<pageRest, labelVars, labelType, annotVars, showInference, showSample,
                   showSelect, modalVars, isDrawingBounds, inferenceCalls>>

\* handleOpenExport, handleOpenTraining, handleShowInference,
\* handleOpenSample and handleOpenSelect, of the sidebar: the selection is
\* dropped, one blade is shown and the four others are not, and the mode is
\* SELECT
handleOpenExport ==
    /\ Interactive
    /\ selectedChipId' = NoChip
    /\ showExport' = TRUE
    /\ showTraining' = FALSE
    /\ showInference' = FALSE
    /\ showSample' = FALSE
    /\ showSelect' = FALSE
    /\ cameFromExport' = FALSE
    /\ labelType' = "select"
    /\ lastOp' = Op("handleOpenExport", None)
    /\ UNCHANGED <<pageRest, labelVars, annotVars, modalVars, isDrawingBounds, inferenceCalls>>

handleOpenTraining ==
    /\ Interactive
    /\ selectedChipId' = NoChip
    /\ showExport' = FALSE
    /\ showTraining' = TRUE
    /\ showInference' = FALSE
    /\ showSample' = FALSE
    /\ showSelect' = FALSE
    /\ cameFromExport' = FALSE
    /\ labelType' = "select"
    /\ lastOp' = Op("handleOpenTraining", None)
    /\ UNCHANGED <<pageRest, labelVars, annotVars, modalVars, isDrawingBounds, inferenceCalls>>

handleShowInference ==
    /\ Interactive
    /\ selectedChipId' = NoChip
    /\ showExport' = FALSE
    /\ showTraining' = FALSE
    /\ showInference' = TRUE
    /\ showSample' = FALSE
    /\ showSelect' = FALSE
    /\ cameFromExport' = FALSE
    /\ labelType' = "select"
    /\ lastOp' = Op("handleShowInference", None)
    /\ UNCHANGED <<pageRest, labelVars, annotVars, modalVars, isDrawingBounds, inferenceCalls>>

handleOpenSample ==
    /\ Interactive
    /\ selectedChipId' = NoChip
    /\ showExport' = FALSE
    /\ showTraining' = FALSE
    /\ showInference' = FALSE
    /\ showSample' = TRUE
    /\ showSelect' = FALSE
    /\ cameFromExport' = FALSE
    /\ labelType' = "select"
    /\ lastOp' = Op("handleOpenSample", None)
    /\ UNCHANGED <<pageRest, labelVars, annotVars, modalVars, isDrawingBounds, inferenceCalls>>

handleOpenSelect ==
    /\ Interactive
    /\ selectedChipId' = NoChip
    /\ showExport' = FALSE
    /\ showTraining' = FALSE
    /\ showInference' = FALSE
    /\ showSample' = FALSE
    /\ showSelect' = TRUE
    /\ cameFromExport' = FALSE
    /\ labelType' = "select"
    /\ lastOp' = Op("handleOpenSelect", None)
    /\ UNCHANGED <<pageRest, labelVars, annotVars, modalVars, isDrawingBounds, inferenceCalls>>

\* handleSelectPositive, of the sample blade
handleSelectPositive ==
    /\ Interactive
    /\ showSample
    /\ ~isAnnotating
    /\ labelType' = "positive"
    /\ lastOp' = Op("handleSelectPositive", None)
    /\ UNCHANGED <<pageRest, labelVars, annotVars, selectedChipId, bladeVars, modalVars,
                   isDrawingBounds, inferenceCalls>>

\* handleSelectNegative, of the sample blade
handleSelectNegative ==
    /\ Interactive
    /\ showSample
    /\ ~isAnnotating
    /\ labelType' = "negative"
    /\ lastOp' = Op("handleSelectNegative", None)
    /\ UNCHANGED <<pageRest, labelVars, annotVars, selectedChipId, bladeVars, modalVars,
                   isDrawingBounds, inferenceCalls>>

\* handleStartDrawing, of the inference blade
handleStartDrawing ==
    /\ Interactive
    /\ showInference
    /\ isDrawingBounds' = TRUE
    /\ lastOp' = Op("handleStartDrawing", None)
    /\ UNCHANGED <<pageRest, labelVars, labelType, annotVars, selectedChipId, bladeVars,
                   modalVars, inferenceCalls>>

\* handleCancelBoundsDrawing: the Escape key while bounds are drawn
handleCancelBoundsDrawing ==
    /\ isDrawingBounds
    /\ isDrawingBounds' = FALSE
    /\ lastOp' = Op("handleCancelBoundsDrawing", None)
    /\ UNCHANGED <<pageRest, labelVars, labelType, annotVars, selectedChipId, bladeVars,
                   modalVars, inferenceCalls>>

\* handleBoundsDrawn up to the await: the drawing mode ends and
\* startInference is called
handleBoundsDrawn ==
    /\ Interactive
    /\ isDrawingBounds
    /\ inferenceCalls < MaxInferenceCalls
    /\ isDrawingBounds' = FALSE
    /\ inferenceCalls' = inferenceCalls + 1
    /\ lastOp' = Op("handleBoundsDrawn", None)
    /\ UNCHANGED <<pageRest, labelVars, labelType, annotVars, selectedChipId, bladeVars,
                   modalVars>>

\* handleBoundsDrawn after the await, startInference having returned a job
startInferenceResolved ==
    /\ inferenceCalls > 0
    /\ inferenceCalls' = inferenceCalls - 1
    /\ selectedChipId' = NoChip
    /\ showExport' = FALSE
    /\ showTraining' = FALSE
    /\ showSample' = FALSE
    /\ labelType' = "select"
    /\ showInference' = TRUE
    /\ lastOp' = Op("startInference", "resolved")
    /\ UNCHANGED <<pageRest, labelVars, annotVars, showSelect, cameFromExport, modalVars,
                   isDrawingBounds>>

\* handleBoundsDrawn after the await, startInference having failed: the
\* catch block alerts
startInferenceRejected ==
    /\ inferenceCalls > 0
    /\ inferenceCalls' = inferenceCalls - 1
    /\ lastOp' = Op("startInference", "rejected")
    /\ UNCHANGED <<pageRest, labelVars, labelType, annotVars, selectedChipId, bladeVars,
                   modalVars, isDrawingBounds>>

\* handleDeleteSelectedChip, of the Chip Details blade
handleDeleteSelectedChip ==
    /\ Interactive
    /\ ChipDetailsDisplayed
    /\ IF selectedChipId # NoChip
          THEN /\ chipToDelete' = selectedChipId
               /\ deleteModalOpen' = TRUE
          ELSE UNCHANGED modalVars
    /\ lastOp' = Op("handleDeleteSelectedChip", selectedChipId)
    /\ UNCHANGED <<pageRest, labelVars, labelType, annotVars, selectedChipId, bladeVars,
                   isDrawingBounds, inferenceCalls>>

\* handleConfirmDeleteWithClear that leaves the selection as it is
handleConfirmDeleteWithClear_KeepSelection ==
    /\ deleteModalOpen
    /\ IF chipToDelete # NoChip
          THEN /\ deleteChip(chipToDelete)
               /\ UNCHANGED selectedChipId
          ELSE UNCHANGED <<labelVars, selectedChipId>>
    /\ deleteModalOpen' = FALSE
    /\ chipToDelete' = NoChip
    /\ lastOp' = Op("handleConfirmDeleteWithClear", chipToDelete)
    /\ UNCHANGED <<pageRest, labelType, annotVars, bladeVars, isDrawingBounds, inferenceCalls>>

handleConfirmDeleteWithClear ==
    /\ deleteModalOpen
    /\ IF chipToDelete # NoChip
          THEN /\ deleteChip(chipToDelete)
               /\ selectedChipId' = IF chipToDelete = selectedChipId THEN NoChip ELSE selectedChipId
          ELSE UNCHANGED <<labelVars, selectedChipId>>
    /\ deleteModalOpen' = FALSE
    /\ chipToDelete' = NoChip
    /\ lastOp' = Op("handleConfirmDeleteWithClear", chipToDelete)
    /\ UNCHANGED <<pageRest, labelType, annotVars, bladeVars, isDrawingBounds, inferenceCalls>>

handleCancelDelete ==
    /\ deleteModalOpen
    /\ deleteModalOpen' = FALSE
    /\ chipToDelete' = NoChip
    /\ lastOp' = Op("handleCancelDelete", chipToDelete)
    /\ UNCHANGED <<pageRest, labelVars, labelType, annotVars, selectedChipId, bladeVars,
                   isDrawingBounds, inferenceCalls>>

NextPage ==
    \/ handleClickNegative
    \/ handleStartAnnotation
    \/ handleAddPendingPolygon
    \/ handleFinishAnnotation
    \/ handleCancelAnnotation
    \/ handleChipClick
    \/ handleMapClick
    \/ ExportChipSelect
    \/ handleCloseBlade
    \/ handleBackToExport
    \/ handleOpenExport
    \/ handleOpenTraining
    \/ handleShowInference
    \/ handleOpenSample
    \/ handleOpenSelect
    \/ handleSelectPositive
    \/ handleSelectNegative
    \/ handleStartDrawing
    \/ handleCancelBoundsDrawing
    \/ handleBoundsDrawn
    \/ startInferenceResolved
    \/ startInferenceRejected
    \/ handleDeleteSelectedChip
    \/ handleConfirmDeleteWithClear
    \/ handleCancelDelete

SpecPage == InitPageOpen /\ [][NextPage]_vars

----------------------------------------------------------------------------
(* MapContainer.jsx, the inference bounds drawn with the mouse while        *)
(* isDrawingBounds: mousedown sets boundsStart, mousemove sets              *)
(* currentBounds from boundsStart and the mouse, mouseup hands              *)
(* currentBounds to onBoundsDrawn (handleBoundsDrawn of the page) if it is  *)
(* large enough, Escape cancels.  The mouse button goes down and up in      *)
(* turns; the mouse moves with the button down or up.                       *)

\* minSize of handleMouseUp, 0.001 degree, in the model's unit: a difference
\* of whole units is above 111.32 when it is above 111
MinSizeUnits == 111

\* where the mouse is at an event
MousePositions ==
    { [lng |-> 0, lat |-> 0], [lng |-> 200, lat |-> 300], [lng |-> -250, lat |-> 150] }

boundsRest == <<geomVars, coverVars, gridVars, convVars, labelVars, projectId, stored,
                netVars, layerVars, loadVars, pollVars>>

\* handleMouseDown
handleMouseDown ==
    /\ isDrawingBounds
    /\ ~buttonDown
    /\ \E e \in MousePositions :
        /\ boundsStart' = e
        /\ mouseDownAt' = e
        /\ lastOp' = Op("handleMouseDown", e)
    /\ buttonDown' = TRUE
    /\ dragged' = FALSE
    /\ UNCHANGED <<boundsRest, uiVars, currentBounds, boundsDrawn>>

\* handleMouseMove
handleMouseMove ==
    /\ isDrawingBounds
    /\ \E e \in MousePositions :
        /\ IF boundsStart = NoPoint
              THEN UNCHANGED currentBounds
              ELSE currentBounds' = [west |-> Min2(boundsStart.lng, e.lng),
                                     south |-> Min2(boundsStart.lat, e.lat),
                                     east |-> Max2(boundsStart.lng, e.lng),
                                     north |-> Max2(boundsStart.lat, e.lat)]
        /\ lastOp' = Op("handleMouseMove", e)
    /\ dragged' = TRUE
    /\ UNCHANGED <<boundsRest, uiVars, boundsStart, buttonDown, mouseDownAt, boundsDrawn>>

\* handleMouseUp; onBoundsDrawn is handleBoundsDrawn up to its await, and the
\* effect of the render with isDrawingBounds false finds the two already null
handleMouseUp ==
    /\ isDrawingBounds
    /\ buttonDown
    /\ buttonDown' = FALSE
    /\ IF boundsStart = NoPoint \/ currentBounds = NoResult
          THEN /\ lastOp' = Op("handleMouseUp", None)
               /\ UNCHANGED <<boundsStart, currentBounds, boundsDrawn, isDrawingBounds,
                              inferenceCalls>>
          ELSE /\ boundsStart' = NoPoint
               /\ currentBounds' = NoResult
               /\ IF /\ Abs(currentBounds.east - currentBounds.west) > MinSizeUnits
                     /\ Abs(currentBounds.north - currentBounds.south) > MinSizeUnits
                     THEN /\ inferenceCalls < MaxInferenceCalls
                          /\ boundsDrawn' = currentBounds
                          /\ isDrawingBounds' = FALSE
                          /\ inferenceCalls' = inferenceCalls + 1
                          /\ lastOp' = Op("onBoundsDrawn", currentBounds)
                     ELSE /\ lastOp' = Op("handleMouseUp", None)
                          /\ UNCHANGED <<boundsDrawn, isDrawingBounds, inferenceCalls>>
    /\ UNCHANGED <<boundsRest, labelType, annotVars, selectedChipId, bladeVars, modalVars,
                   mouseDownAt, dragged>>

\* handleKeyDown with the Escape key: onCancelBoundsDrawing is
\* handleCancelBoundsDrawing
handleKeyDown ==
    /\ isDrawingBounds
    /\ boundsStart' = NoPoint
    /\ currentBounds' = NoResult
    /\ isDrawingBounds' = FALSE
    /\ lastOp' = Op("handleKeyDown", "Escape")
    /\ UNCHANGED <<boundsRest, labelType, annotVars, selectedChipId, bladeVars, modalVars,
                   inferenceCalls, buttonDown, mouseDownAt, dragged, boundsDrawn>>

\* the mouse button released or pressed outside the drawing mode, where the
\* handlers are not registered
buttonOutsideDrawing ==
    /\ ~isDrawingBounds
    /\ buttonDown' = ~buttonDown
    /\ lastOp' = Op("button", None)
    /\ UNCHANGED <<boundsRest, uiVars, boundsStart, currentBounds, mouseDownAt, dragged,
                   boundsDrawn>>

NextBounds ==
    \/ handleShowInference
    \/ handleStartDrawing
    \/ handleMouseDown
    \/ handleMouseMove
    \/ handleMouseUp
    \/ handleKeyDown
    \/ buttonOutsideDrawing
    \/ startInferenceResolved
    \/ startInferenceRejected

\* the page with the inference bounds drawn by the mouse
SpecBounds == InitPageOpen /\ [][NextBounds]_vars

----------------------------------------------------------------------------
(* LabelingPage.jsx with the label requests on their way: the auto-save     *)
(* effect arms a timer whenever chips or polygons change, the timer sends   *)
(* saveLabels with the labels of that render, handleClearAll sends          *)
(* clearLabels and calls clearAll() once it is answered.  fetch gives the   *)
(* requests no order: the server handles the requests in flight one at a    *)
(* time, in any order.  Every request is answered; a clearLabels request    *)
(* may be answered with an error, which handleClearAll catches.             *)

\* the most label requests in flight at a time
MaxRequests == 2

\* the most handleClearAll calls waiting for their answer at a time
MaxClearCalls == 1

\* the handleClearAll calls waiting: their requests in flight and their
\* answers not yet handled
ClearCalls ==
    clearReplies + Cardinality({ i \in 1..Len(inFlight) : inFlight[i].method = "DELETE" })

\* the auto-save effect after a render with new chips, polygons or project:
\* the cleanup clears the timer of the render before, and unless the effect
\* returns early a timer is set with the project and the labels of this
\* render
runAutoSaveEffect(currentProject) ==
    saveTimeout' = IF ~hasInitiallyLoaded \/ currentProject = 0
                      THEN NoResult
                      ELSE [project |-> currentProject, chips |-> chips',
                            polygons |-> polygons']

\* the effect after a render with new chips or polygons
autoSaveEffect == runAutoSaveEffect(project)

\* a click in NEGATIVE mode: addNegativeChip, then the auto-save effect
PlaceChipAutoSave ==
    /\ mounted
    /\ CanCount(chipIdCounter, 1)
    /\ Len(chips) < PageChips
    /\ addNegativeChip(ProjectCenter.lng, ProjectCenter.lat)
    /\ autoSaveEffect
    /\ unsavedChange' = (unsavedChange \/ hasInitiallyLoaded)
    /\ lastOp' = Op("addNegativeChip", generateChipId(chipIdCounter + 1))
    /\ UNCHANGED <<geomVars, coverVars, gridVars, convVars, sideVars, projectId, stored, uiVars,
                   inFlight, clearReplies>>

\* handleFinishAnnotation with polygons pending: addPositiveChipWithPolygons,
\* then the auto-save effect
AnnotateAutoSave ==
    /\ mounted
    /\ CanCount(chipIdCounter, 1)
    /\ Len(chips) < PageChips
    /\ \E pending \in PagePendingLists :
        /\ Len(pending) > 0
        /\ CanCount(polygonIdCounter, Len(pending))
        /\ addPositiveChipWithPolygons(ProjectCenter, pending)
        /\ lastOp' = Op("addPositiveChipWithPolygons", generateChipId(chipIdCounter + 1))
    /\ autoSaveEffect
    /\ unsavedChange' = (unsavedChange \/ hasInitiallyLoaded)
    /\ UNCHANGED <<geomVars, coverVars, gridVars, convVars, sideVars, projectId, stored, uiVars,
                   inFlight, clearReplies>>

\* the timer of the auto-save effect fires: saveLabels(project.id, chips,
\* polygons) with the labels the effect closed over
saveTimeoutFires ==
    /\ saveTimeout # NoResult
    /\ Len(inFlight) < MaxRequests
    /\ inFlight' = Append(inFlight, [method |-> "POST",
                                      project |-> saveTimeout.project,
                                      labels |-> [chips |-> saveTimeout.chips,
                                                  polygons |-> saveTimeout.polygons]])
    /\ saveTimeout' = NoResult
    /\ unsavedChange' = (unsavedChange /\ (saveTimeout.chips # chips
                                            \/ saveTimeout.polygons # polygons))
    /\ UNCHANGED <<geomVars, coverVars, gridVars, convVars, sideVars, labelVars, pageVars, uiVars,
                   clearReplies>>

\* handleClearAll up to the await: clearLabels(project.id)
handleClearAll ==
    /\ mounted
    /\ project # 0
    /\ Len(inFlight) < MaxRequests
    /\ ClearCalls < MaxClearCalls
    /\ inFlight' = Append(inFlight, [method |-> "DELETE", project |-> project,
                                      labels |-> NoLabels])
    /\ lastOp' = Op("handleClearAll", None)
    /\ UNCHANGED <<geomVars, coverVars, gridVars, convVars, sideVars, labelVars, projectId, stored,
                   uiVars, saveTimeout, clearReplies, unsavedChange>>

\* inFlight without its i-th request
WithoutRequest(i) ==
    [k \in 1..(Len(inFlight) - 1) |-> IF k < i THEN inFlight[k] ELSE inFlight[k + 1]]

\* the server handles a saveLabels request: the labels of the project are
\* replaced by the labels of the request
ServerSaves ==
    /\ \E i \in 1..Len(inFlight) :
        /\ inFlight[i].method = "POST"
        /\ stored' = [stored EXCEPT ![inFlight[i].project] = inFlight[i].labels]
        /\ inFlight' = WithoutRequest(i)
    /\ UNCHANGED <<geomVars, coverVars, gridVars, convVars, sideVars, labelVars, projectId, lastOp,
                   uiVars, saveTimeout, clearReplies, unsavedChange>>

\* the server handles a clearLabels request: the labels of the project are
\* deleted
ServerClears ==
    /\ \E i \in 1..Len(inFlight) :
        /\ inFlight[i].method = "DELETE"
        /\ stored' = [stored EXCEPT ![inFlight[i].project] = NoLabels]
        /\ inFlight' = WithoutRequest(i)
    /\ clearReplies' = clearReplies + 1
    /\ UNCHANGED <<geomVars, coverVars, gridVars, convVars, sideVars, labelVars, projectId, lastOp,
                   uiVars, saveTimeout, unsavedChange>>

\* a clearLabels request fails: the labels of the project stay
ServerFailsClear ==
    /\ \E i \in 1..Len(inFlight) :
        /\ inFlight[i].method = "DELETE"
        /\ inFlight' = WithoutRequest(i)
    /\ clearReplies' = clearReplies + 1
    /\ UNCHANGED <<geomVars, coverVars, gridVars, convVars, sideVars, labelVars, pageVars,
                   uiVars, saveTimeout, unsavedChange>>

\* handleClearAll after the await, in the try block or in the catch block:
\* clearAll(), then the auto-save effect
clearLabelsAnswered ==
    /\ clearReplies > 0
    /\ clearReplies' = clearReplies - 1
    /\ clearAll
    /\ autoSaveEffect
    /\ unsavedChange' = (unsavedChange \/ hasInitiallyLoaded)
    /\ lastOp' = Op("clearAll", None)
    /\ UNCHANGED <<geomVars, coverVars, gridVars, convVars, sideVars, projectId, stored, uiVars,
                   inFlight>>

NextClear ==
    \/ PlaceChipAutoSave
    \/ AnnotateAutoSave
    \/ saveTimeoutFires
    \/ handleClearAll
    \/ ServerSaves
    \/ ServerClears
    \/ ServerFailsClear
    \/ clearLabelsAnswered

SpecClear == InitPageOpen /\ [][NextClear]_vars

----------------------------------------------------------------------------
(* LabelingPage.jsx from mount to unmount: loadProject awaits getProject    *)
(* and loadLabels, hands the labels to setInitialState and sets the         *)
(* hasInitiallyLoaded ref from a zero-delay timer; the route's projectId    *)
(* can change while the page stays mounted (the same <Route> element, so    *)
(* refs and state are kept), which starts another loadProject; the cleanup  *)
(* of the auto-save effect clears its timer when the page is unmounted.     *)
(* A loadLabels answer is read from the server when it is handled.          *)

\* the most loadProject calls on their way at a time
MaxLoads == 2

\* loads without its i-th call
WithoutLoad(i) ==
    [k \in 1..(Len(loads) - 1) |-> IF k < i THEN loads[k] ELSE loads[k + 1]]

sessionRest == <<geomVars, coverVars, gridVars, convVars, layerVars, drawVars, pollVars,
                 stored>>

\* handleBackToProjects: navigate('/') unmounts the page: the cleanup of the
\* auto-save effect clears the timer, and the state and the refs of the page
\* are gone (the continuations of its loadProject calls change nothing that
\* is seen again); the requests sent stay on their way
handleBackToProjects ==
    /\ mounted
    /\ mounted' = FALSE
    /\ saveTimeout' = NoResult
    /\ loads' = <<>>
    /\ project' = 0
    /\ hasInitiallyLoaded' = FALSE
    /\ labelsLoadedFor' = 0
    /\ projectId' = 0
    /\ chips' = <<>>
    /\ polygons' = <<>>
    /\ UNCHANGED <<sessionRest, lastOp, chipIdCounter, polygonIdCounter, uiVars, inFlight,
                   clearReplies, unsavedChange>>

\* HomePage navigates to /project/<p>: a new page is mounted, with new state
\* and refs, and its loadProject effect runs
mountPage ==
    /\ ~mounted
    /\ mounted' = TRUE
    /\ \E p \in Projects :
        /\ projectId' = p
        /\ loads' = <<[project |-> p, stage |-> "getProject"]>>
    /\ labelType' = "negative"
    /\ isAnnotating' = FALSE
    /\ activeChipCenter' = NoPoint
    /\ pendingPolygons' = <<>>
    /\ selectedChipId' = NoChip
    /\ showExport' = FALSE
    /\ showTraining' = FALSE
    /\ showInference' = FALSE
    /\ showSample' = FALSE
    /\ showSelect' = FALSE
    /\ cameFromExport' = FALSE
    /\ deleteModalOpen' = FALSE
    /\ chipToDelete' = NoChip
    /\ isDrawingBounds' = FALSE
    /\ UNCHANGED <<sessionRest, lastOp, labelVars, inferenceCalls, netVars, project,
                   hasInitiallyLoaded, labelsLoadedFor>>

\* the route changes to another project while the page stays mounted: the
\* loadProject effect runs again ([projectId, setInitialState])
projectIdChanges ==
    /\ mounted
    /\ Len(loads) < MaxLoads
    /\ \E p \in Projects \ {projectId} :
        /\ projectId' = p
        /\ loads' = Append(loads, [project |-> p, stage |-> "getProject"])
    /\ UNCHANGED <<sessionRest, lastOp, labelVars, uiVars, netVars, mounted, project,
                   hasInitiallyLoaded, labelsLoadedFor>>

\* loadProject after await getProject: setProject(projectData), and the
\* auto-save effect of the render with the new project
getProjectResolved ==
    /\ \E i \in 1..Len(loads) :
        /\ loads[i].stage = "getProject"
        /\ project' = loads[i].project
        /\ loads' = [loads EXCEPT ![i].stage = "loadLabels"]
        /\ UNCHANGED labelVars
        /\ runAutoSaveEffect(loads[i].project)
    /\ UNCHANGED <<sessionRest, lastOp, projectId, uiVars, inFlight, clearReplies, unsavedChange,
                   mounted, hasInitiallyLoaded, labelsLoadedFor>>

\* loadProject after await loadLabels: setInitialState, the zero-delay timer
\* is set, and the auto-save effect of the render with the loaded labels
\* runs before the timer
loadLabelsResolved ==
    /\ \E i \in 1..Len(loads) :
        /\ loads[i].stage = "loadLabels"
        /\ setInitialState(stored[loads[i].project].chips, stored[loads[i].project].polygons)
        /\ labelsLoadedFor' = loads[i].project
        /\ loads' = [loads EXCEPT ![i].stage = "setTimeout"]
    /\ autoSaveEffect
    /\ UNCHANGED <<sessionRest, lastOp, projectId, uiVars, inFlight, clearReplies, unsavedChange,
                   mounted, project, hasInitiallyLoaded>>

\* the zero-delay timer of loadProject: hasInitiallyLoaded.current = true
loadTimerFires ==
    /\ \E i \in 1..Len(loads) :
        /\ loads[i].stage = "setTimeout"
        /\ loads' = WithoutLoad(i)
    /\ hasInitiallyLoaded' = TRUE
    /\ UNCHANGED <<sessionRest, lastOp, labelVars, projectId, uiVars, netVars, mounted, project,
                   labelsLoadedFor>>

NextSession ==
    \/ mountPage
    \/ projectIdChanges
    \/ getProjectResolved
    \/ loadLabelsResolved
    \/ loadTimerFires
    \/ PlaceChipAutoSave
    \/ saveTimeoutFires
    \/ ServerSaves

\* a page opened from the project list, and the route changing under it
SpecSession == InitProjects /\ [][NextSession]_vars

\* handleConfirmDeleteWithClear: deleteChip, then the auto-save effect
DeleteChipAutoSave ==
    /\ mounted
    /\ \E id \in Ids(chips) :
        /\ deleteChip(id)
        /\ lastOp' = Op("deleteChip", id)
    /\ autoSaveEffect
    /\ unsavedChange' = (unsavedChange \/ hasInitiallyLoaded)
    /\ UNCHANGED <<geomVars, coverVars, gridVars, convVars, sideVars, projectId, stored, uiVars,
                   inFlight, clearReplies>>

NextSave ==
    \/ PlaceChipAutoSave
    \/ AnnotateAutoSave
    \/ DeleteChipAutoSave
    \/ saveTimeoutFires
    \/ ServerSaves

\* the loaded page with label changes and auto-saves only
SpecSave == InitPageOpen /\ [][NextSave]_vars

NextLeave ==
    \/ PlaceChipAutoSave
    \/ DeleteChipAutoSave
    \/ saveTimeoutFires
    \/ ServerSaves
    \/ handleBackToProjects

\* the loaded page with label changes, auto-saves and the way back to the
\* project list
SpecLeave == InitPageOpen /\ [][NextLeave]_vars

\* timers fire unless cleared, and requests are handled
SpecLeaveLive ==
    /\ SpecLeave
    /\ WF_vars(saveTimeoutFires)
    /\ WF_vars(ServerSaves)

----------------------------------------------------------------------------
(* TrainingDetails.jsx and InferenceDetails.jsx with one job of the         *)
(* project.  loadJobs puts the job into the jobs state; the effect on       *)
(* [projectId, jobs] keeps an interval while the job in jobs is active,     *)
(* and runs again after every setJobs; the effect on [projectId,            *)
(* activeJobId] of InferenceDetails keeps a second interval until one of    *)
(* its polls is answered with a status that is not active.  A tick asks     *)
(* the server, which answers with the status the job has then; the answers  *)
(* reach the component in any order, and an answer to a poll may be an      *)
(* error.  The server moves the job forward, never back.                    *)

\* the most answers on their way to the component at a time
MaxPolls == 2

\* the statuses the two effects poll for
IsActive(status) ==
    IF jobKind = "training"
       THEN status \in {"running", "pending"}
       ELSE status \in {"pending", "downloading", "inferring"}

\* the statuses a job can take next on the server
NextStatuses ==
    IF ~IsActive(jobStatus) THEN {}
    ELSE {"failed"} \cup
         (CASE jobStatus = "pending" /\ jobKind = "training" -> {"running"}
            [] jobStatus = "pending" /\ jobKind = "inference" -> {"downloading"}
            [] jobStatus = "downloading" -> {"inferring"}
            [] OTHER -> {"completed"})

\* responses without its i-th answer
WithoutResponse(i) ==
    [k \in 1..(Len(responses) - 1) |-> IF k < i THEN responses[k] ELSE responses[k + 1]]

pollRest == <<geomVars, coverVars, gridVars, convVars, labelVars, pageVars, uiVars, netVars,
              layerVars, drawVars, loadVars, jobKind>>

\* the server's job moves on
serverAdvances ==
    /\ \E next \in NextStatuses : jobStatus' = next
    /\ UNCHANGED <<pollRest, detailsMounted, jobsShown, listInterval, activeInterval,
                   responses>>

\* TrainingDetails is mounted: loadJobs is called
mountTrainingDetails ==
    /\ jobKind = "training"
    /\ ~detailsMounted
    /\ detailsMounted' = TRUE
    /\ responses' = <<[from |-> "loadJobs", status |-> jobStatus]>>
    /\ UNCHANGED <<pollRest, jobStatus, jobsShown, listInterval, activeInterval>>

\* InferenceDetails is mounted, with or without the activeJobId of the job:
\* loadJobs is called, and with an activeJobId the second interval is set
mountInferenceDetails ==
    /\ jobKind = "inference"
    /\ ~detailsMounted
    /\ detailsMounted' = TRUE
    /\ responses' = <<[from |-> "loadJobs", status |-> jobStatus]>>
    /\ \E hasActiveJobId \in BOOLEAN : activeInterval' = hasActiveJobId
    /\ UNCHANGED <<pollRest, jobStatus, jobsShown, listInterval>>

\* the blade is closed: the cleanups clear the intervals, and the answers on
\* their way find no component
unmountDetails ==
    /\ detailsMounted
    /\ detailsMounted' = FALSE
    /\ jobsShown' = "none"
    /\ listInterval' = FALSE
    /\ activeInterval' = FALSE
    /\ responses' = <<>>
    /\ UNCHANGED <<pollRest, jobStatus>>

\* a tick of the interval of the effect on [projectId, jobs]
listIntervalTicks ==
    /\ listInterval
    /\ Len(responses) < MaxPolls
    /\ responses' = Append(responses, [from |-> "jobs", status |-> jobStatus])
    /\ UNCHANGED <<pollRest, jobStatus, detailsMounted, jobsShown, listInterval,
                   activeInterval>>

\* a tick of the interval of the effect on [projectId, activeJobId]
activeIntervalTicks ==
    /\ activeInterval
    /\ Len(responses) < MaxPolls
    /\ responses' = Append(responses, [from |-> "activeJobId", status |-> jobStatus])
    /\ UNCHANGED <<pollRest, jobStatus, detailsMounted, jobsShown, listInterval,
                   activeInterval>>

\* loadJobs after its await: setJobs(data.jobs), and the effect on
\* [projectId, jobs] runs
loadJobsResolved ==
    /\ \E i \in 1..Len(responses) :
        /\ responses[i].from = "loadJobs"
        /\ jobsShown' = responses[i].status
        /\ listInterval' = IsActive(responses[i].status)
        /\ responses' = WithoutResponse(i)
    /\ UNCHANGED <<pollRest, jobStatus, detailsMounted, activeInterval>>

\* a poll of the effect on [projectId, jobs] answered: the job in jobs is
\* replaced, and the effect runs again with the new jobs
listPollResolved ==
    /\ \E i \in 1..Len(responses) :
        /\ responses[i].from = "jobs"
        /\ jobsShown' = IF jobsShown = "none" THEN "none" ELSE responses[i].status
        /\ listInterval' = (jobsShown # "none" /\ IsActive(responses[i].status))
        /\ responses' = WithoutResponse(i)
    /\ UNCHANGED <<pollRest, jobStatus, detailsMounted, activeInterval>>

\* the poll of the activeJobId effect that never clears its interval
activePollResolved_KeepsPolling ==
    /\ \E i \in 1..Len(responses) :
        /\ responses[i].from = "activeJobId"
        /\ jobsShown' = responses[i].status
        /\ listInterval' = IsActive(responses[i].status)
        /\ responses' = WithoutResponse(i)
    /\ UNCHANGED <<pollRest, jobStatus, detailsMounted, activeInterval>>

\* a poll of the effect on [projectId, activeJobId] answered: the job is
\* replaced in jobs or put in front, the interval is cleared if the status
\* is not active, and the effect on [projectId, jobs] runs
activePollResolved ==
    /\ \E i \in 1..Len(responses) :
        /\ responses[i].from = "activeJobId"
        /\ jobsShown' = responses[i].status
        /\ listInterval' = IsActive(responses[i].status)
        /\ activeInterval' = (activeInterval /\ IsActive(responses[i].status))
        /\ responses' = WithoutResponse(i)
    /\ UNCHANGED <<pollRest, jobStatus, detailsMounted>>

\* a poll answered with an error: the catch block logs it
pollRejected ==
    /\ \E i \in 1..Len(responses) :
        /\ responses[i].from # "loadJobs"
        /\ responses' = WithoutResponse(i)
    /\ UNCHANGED <<pollRest, jobStatus, detailsMounted, jobsShown, listInterval,
                   activeInterval>>

InitJobs ==
    /\ InitGeomIdle
    /\ InitCover
    /\ InitLabels
    /\ InitGrid
    /\ InitConv
    /\ InitUi
    /\ InitNet
    /\ InitLayers
    /\ InitDrawBounds
    /\ InitUnmounted
    /\ InitPage
    /\ jobKind \in {"training", "inference"}
    /\ InitJob

NextJobs ==
    \/ serverAdvances
    \/ mountTrainingDetails
    \/ mountInferenceDetails
    \/ unmountDetails
    \/ listIntervalTicks
    \/ activeIntervalTicks
    \/ loadJobsResolved
    \/ listPollResolved
    \/ activePollResolved
    \/ pollRejected

\* a job, and the details blade of its kind opened and closed
SpecJobs == InitJobs /\ [][NextJobs]_vars

\* the intervals tick while they are set, and answers are delivered: an
\* answer is not an error for ever
SpecJobsLive ==
    /\ SpecJobs
    /\ WF_vars(listIntervalTicks)
    /\ WF_vars(activeIntervalTicks)
    /\ WF_vars(loadJobsResolved)
    /\ SF_vars(listPollResolved)
    /\ SF_vars(activePollResolved)

----------------------------------------------------------------------------
(* Properties of snapping and of the chip polygon *)

\* twice the signed area of a ring, taken from its first position (the
\* coordinates relative to it are small): positive when counter-clockwise
RECURSIVE SignedArea2From(_, _)
SignedArea2From(ring, i) ==
    IF i >= Len(ring) THEN 0
    ELSE (ring[i][1] - ring[1][1]) * (ring[i + 1][2] - ring[1][2])
         - (ring[i + 1][1] - ring[1][1]) * (ring[i][2] - ring[1][2])
         + SignedArea2From(ring, i + 1)

SignedArea2(ring) == SignedArea2From(ring, 1)

\* C1: snapToChipGrid is idempotent: snapping the result of a snap returns
\* the same point, in every latitude row (the longitude step being evaluated
\* at the latitude passed to each call).
C1_SnapIdempotent ==
    resnapped # NoPoint => resnapped = snapped

\* a reachable state where a click off the centre line of its row, away from
\* the prime meridian, has been snapped twice
C1_Reached ==
    /\ resnapped # NoPoint
    /\ click.lat # snapped.lat
    /\ click.lng # 0

\* C2: the results of snapToChipGrid lie on one lattice: two results of the
\* same snapped latitude differ in longitude by a whole number of longitude
\* steps of that row, so the two chips coincide or have disjoint interiors.
C2_OneLattice ==
    (snapped # NoPoint /\ earlier # NoPoint /\ snapped.lat = earlier.lat) =>
        LET step == metersToDegreesLng(CHIP_SIZE_METERS, snapped.lat)
            d == Abs(snapped.lng - earlier.lng)
        IN  /\ d % step = 0
            /\ d = 0 \/ d >= step

\* C3: createChipFromCenter returns one ring of exactly 5 positions in the
\* order SW, SE, NE, NW, SW: first and last identical, counter-clockwise,
\* the corners being the centre plus or minus the half-width in longitude
\* and the half-height in latitude.
C3_ChipRing ==
    chipRing # <<>> =>
        LET halfLat == metersToDegreesLat(CHIP_SIZE_METERS \div 2)
            halfLng == metersToDegreesLng(CHIP_SIZE_METERS \div 2, snapped.lat)
            w == snapped.lng - halfLng
            e == snapped.lng + halfLng
            s == snapped.lat - halfLat
            n == snapped.lat + halfLat
        IN  /\ Len(chipRing) = 5
            /\ chipRing[1] = <<w, s>>
            /\ chipRing[2] = <<e, s>>
            /\ chipRing[3] = <<e, n>>
            /\ chipRing[4] = <<w, n>>
            /\ chipRing[5] = chipRing[1]
            /\ w < e /\ s < n
            /\ SignedArea2(chipRing) > 0

\* a chip has been built around a centre away from the equator and from the
\* prime meridian
C3_Reached ==
    /\ chipRing # <<>>
    /\ snapped.lat > metersToDegreesLat(CHIP_SIZE_METERS)
    /\ snapped.lng < 0

----------------------------------------------------------------------------
(* Properties of generateChipsForPolygon *)

\* the side of the line through p and q that r lies on
Side(p, q, r) == (q[1] - p[1]) * (r[2] - p[2]) - (q[2] - p[2]) * (r[1] - p[1])

\* the line through an edge of ring a has a on one side and b strictly on
\* the other
EdgeSeparates(a, b) ==
    \E i \in 1..(Len(a) - 1) :
        \/ /\ \A k \in 1..Len(a) : Side(a[i], a[i + 1], a[k]) >= 0
           /\ \A k \in 1..Len(b) : Side(a[i], a[i + 1], b[k]) < 0
        \/ /\ \A k \in 1..Len(a) : Side(a[i], a[i + 1], a[k]) <= 0
           /\ \A k \in 1..Len(b) : Side(a[i], a[i + 1], b[k]) > 0

\* two convex polygons have no point in common exactly when the line through
\* an edge of one of them separates them
Disjoint(a, b) == EdgeSeparates(a, b) \/ EdgeSeparates(b, a)

\* every position of ring a lies in the rectangle of chip ring c
InsideChip(a, c) ==
    \A k \in 1..Len(a) :
        /\ c[1][1] <= a[k][1] /\ a[k][1] <= c[3][1]
        /\ c[1][2] <= a[k][2] /\ a[k][2] <= c[3][2]

DrawnRing == drawn.coordinates[1]

\* the chip of the grid around the first vertex of the drawn polygon
GridChipOfDrawn ==
    LET c == snapToChipGrid(DrawnRing[1][1], DrawnRing[1][2])
    IN  createChipFromCenter(c.lng, c.lat)

Returned == covering # NoResult /\ ~covering.threw /\ ~covering.runaway

\* C8: coverage soundness: every chip generateChipsForPolygon returns has a
\* point in common with the input polygon.
C8_CoverageSound ==
    Returned =>
        \A i \in 1..Len(covering.chips) : ~Disjoint(covering.chips[i].geometry, DrawnRing)

\* the filter has kept some candidate chips and dropped others
C8_Reached ==
    /\ Returned
    /\ Len(covering.chips) >= 2
    /\ Len(covering.chips) < Len(generateChipsForPolygon_Unfiltered(drawn).chips)

\* C9: coverage completeness: for a convex polygon that lies entirely inside
\* the footprint of one chip, the result contains a chip whose footprint
\* contains the whole polygon.
C9_CoverageComplete ==
    (Returned /\ InsideChip(DrawnRing, GridChipOfDrawn)) =>
        \E i \in 1..Len(covering.chips) : InsideChip(DrawnRing, covering.chips[i].geometry)

\* a triangle no larger than 40 units (about 40 m) on a side
VerySmall(ring) ==
    LET box == bbox(ring)
    IN  box[3] - box[1] <= 40 /\ box[4] - box[2] <= 40

\* C10: for a very small triangle fully inside one grid cell,
\* generateChipsForPolygon returns exactly 1 chip, wherever the triangle
\* sits in the cell.
C10_SmallTriangleOneChip ==
    (Returned /\ VerySmall(DrawnRing) /\ InsideChip(DrawnRing, GridChipOfDrawn)) =>
        Len(covering.chips) = 1

----------------------------------------------------------------------------
(* Properties of the label state *)

\* the labels of a sequence, as a set
Range(seq) == { seq[i] : i \in 1..Len(seq) }

\* C4: deleteChip(id) cascades: afterwards the chip with that id and every
\* polygon whose chipId is id are absent, and every other chip and every
\* polygon of another chip is unchanged.
C4_DeleteChipCascades ==
    [][lastOp'.name = "deleteChip" =>
        LET id == lastOp'.arg
        IN  /\ \A c \in Range(chips') : c.id # id
            /\ \A p \in Range(polygons') : p.chipId # id
            /\ Range(chips') = { c \in Range(chips) : c.id # id }
            /\ Range(polygons') = { p \in Range(polygons) : p.chipId # id }
            /\ Len(chips') = Cardinality({ i \in 1..Len(chips) : chips[i].id # id })
            /\ Len(polygons') = Cardinality({ i \in 1..Len(polygons) : polygons[i].chipId # id })
      ]_vars

\* a chip with polygons has just been deleted, and a chip with a polygon is
\* left
C4_Reached ==
    /\ lastOp.name = "deleteChip"
    /\ Len(polygons) < lastOp.polygonCount
    /\ polygons # <<>>
    /\ chips # <<>>

\* C5: referential integrity: from the empty label set, after any sequence of
\* addPositiveChipWithPolygons, addNegativeChip, deleteChip, deletePolygon
\* and clearAll, each polygon's chipId is the id of a chip in the state, of
\* type 'positive'.
C5_PolygonsHaveChips ==
    \A p \in Range(polygons) :
        \E c \in Range(chips) : c.id = p.chipId /\ c.type = "positive"

\* polygons are left after the chip of other polygons was deleted
C5_Reached ==
    /\ lastOp.name = "deleteChip"
    /\ Len(polygons) < lastOp.polygonCount
    /\ Len(polygons) >= 1
    /\ \E c \in Range(chips) : c.type = "negative"

\* C6: ids stay unique: after any sequence of setInitialState (with pairwise
\* distinct loaded ids chip-<n>, polygon-<n>), addNegativeChip,
\* addPositiveChipWithPolygons, deleteChip, deletePolygon and clearAll, the
\* chip ids are pairwise distinct and the polygon ids are pairwise distinct.
C6_IdsUnique ==
    /\ \A i, j \in 1..Len(chips) : chips[i].id = chips[j].id => i = j
    /\ \A i, j \in 1..Len(polygons) : polygons[i].id = polygons[j].id => i = j

\* a chip with a polygon was added after the labels chip-2 and chip-<LoadedHigh>
\* were loaded: its id has one more digit than chip-2's
C6_Reached ==
    /\ lastOp.name = "addPositiveChipWithPolygons"
    /\ lastOp.arg = generateChipId(LoadedHigh + 1)
    /\ Len(chips) = 3
    /\ chips[1].id = generateChipId(2)
    /\ Len(polygons) >= 2

\* C7: a chip id is a primary key over all projects: a chip created in one
\* project never has the id of a chip stored for another project, and
\* likewise for polygon ids.
C7_IdsUniqueOverProjects ==
    projectId # 0 =>
        \A p \in Projects \ {projectId} :
            /\ Ids(chips) \cap Ids(stored[p].chips) = {}
            /\ Ids(polygons) \cap Ids(stored[p].polygons) = {}

----------------------------------------------------------------------------
(* Properties of the grid scan *)

\* the longitude step of the row at a latitude
RowStep(lat) == metersToDegreesLng(CHIP_SIZE_METERS, lat)

\* C11: generateChipGrid emits only centres strictly inside the bbox: the
\* first is (minLng + stepLng(midLat)/2, minLat + stepLat/2); each next one
\* is a full step further in its row, or the first of the next row, and a
\* row or the scan ends only where the next position is at or beyond the
\* max bound; the output is row-major with strictly increasing latitude
\* across rows and strictly increasing longitude within a row.
C11_GridInsideBox ==
    (grid # NoResult /\ grid.finished) =>
        LET c == grid.centers
            n == Len(c)
            stepLat == metersToDegreesLat(CHIP_SIZE_METERS)
            startLng == gridBox[1] + RowStep((gridBox[2] + gridBox[4]) \div 2) \div 2
            startLat == gridBox[2] + stepLat \div 2
        IN  /\ n > 0 => c[1] = [lng |-> startLng, lat |-> startLat]
            /\ n = 0 => (startLng >= gridBox[3] \/ startLat >= gridBox[4])
            /\ \A i \in 1..n :
                /\ gridBox[1] < c[i].lng /\ c[i].lng < gridBox[3]
                /\ gridBox[2] < c[i].lat /\ c[i].lat < gridBox[4]
            /\ \A i \in 1..(n - 1) :
                \/ /\ c[i + 1].lat = c[i].lat
                   /\ c[i + 1].lng = c[i].lng + RowStep(c[i].lat)
                   /\ c[i + 1].lng > c[i].lng
                \/ /\ c[i + 1].lat = c[i].lat + stepLat
                   /\ c[i + 1].lng = startLng
                   /\ c[i].lng + RowStep(c[i].lat) >= gridBox[3]
            /\ n > 0 => /\ c[n].lng + RowStep(c[n].lat) >= gridBox[3]
                        /\ c[n].lat + stepLat >= gridBox[4]
            /\ \A i, j \in 1..n : i < j => c[i] # c[j]

\* a scan of two centres or more has returned, and the position after the
\* last centre is the max bound itself
C11_Reached ==
    /\ grid # NoResult
    /\ grid.finished
    /\ Len(grid.centers) >= 2
    /\ LET last == grid.centers[Len(grid.centers)]
       IN  last.lng + RowStep(last.lat) = gridBox[3]

----------------------------------------------------------------------------
(* Properties of metersToDegreesLng *)

\* C12 as stated: for every distance m and every latitude L with |L| < 89,
\* metersToDegreesLng(m, L) is strictly greater than metersToDegreesLng(m, 0).
C12_LngGreaterThanAtEquator ==
    (convDegrees # NoResult /\ Abs(convLatitude) < 89 * UnitsPerDegree) =>
        convDegrees.atLatitude > convDegrees.atEquator

\* C12, amended: for every distance m > 0 and every latitude L with
\* 0 < |L| < 89, metersToDegreesLng(m, L) is strictly greater than
\* metersToDegreesLng(m, 0); at L = 0 the two are equal, and for m = 0 both
\* are 0.
C12_LngGreaterAwayFromEquator ==
    (convDegrees # NoResult /\ Abs(convLatitude) < 89 * UnitsPerDegree) =>
        /\ (convMeters > 0 /\ convLatitude # 0) =>
                convDegrees.atLatitude > convDegrees.atEquator
        /\ convLatitude = 0 => convDegrees.atLatitude = convDegrees.atEquator
        /\ convMeters = 0 => (convDegrees.atLatitude = 0 /\ convDegrees.atEquator = 0)

\* a positive distance has been converted at a latitude south of the
\* equator and within a degree of 89 degrees
C12_Reached ==
    /\ convDegrees # NoResult
    /\ convMeters > 0
    /\ convLatitude < -88 * UnitsPerDegree
    /\ convDegrees.atLatitude > convDegrees.atEquator

----------------------------------------------------------------------------
(* Properties of generateChipsForPolygon at the poles and on degenerate     *)
(* rings                                                                    *)

\* all vertices of the drawn ring have latitudes within [-90, 90] degrees
LatitudesInRange ==
    \A i \in 1..Len(DrawnRing) : Abs(DrawnRing[i][2]) <= Pole

\* C13: generateChipsForPolygon terminates and returns a finite list for
\* every polygon whose vertex latitudes lie in [-90, 90]: both scan loops
\* of generateChipGrid reach their max bound in every row of the expanded
\* bounding box.
C13_ScanTerminates ==
    (covering # NoResult /\ ~covering.threw /\ LatitudesInRange) => ~covering.runaway

----------------------------------------------------------------------------
(* Properties of the chips built on the centres of a scan *)

\* the chip polygon of the i-th centre of the scan
ChipOfCenter(i) == createChipFromCenter(grid.centers[i].lng, grid.centers[i].lat)

InvalidRing(ring) ==
    \/ Len(ring) < 4
    \/ (ring[1] = ring[Len(ring)] /\ SignedArea2(ring) = 0)

\* C14: invalid input geometry fails fast: called with an empty ring, a
\* ring of fewer than four positions or a closed ring of zero area,
\* generateChipsForPolygon raises an error and returns no chip list.
C14_InvalidGeometryRaises ==
    (covering # NoResult /\ InvalidRing(DrawnRing)) => covering.threw

\* the point pt is in the footprint of one of the chips returned
Covered(pt) ==
    \E i \in 1..Len(covering.chips) :
        LET g == covering.chips[i].geometry
        IN  /\ g[1][1] <= pt[1] /\ pt[1] <= g[3][1]
            /\ g[1][2] <= pt[2] /\ pt[2] <= g[3][2]

\* C19: expanding the bounding box by one chip footprint on every side
\* guarantees that no overlapping chip is missed: the union of the
\* footprints of the chips returned by generateChipsForPolygon contains
\* every point of the polygon (here: every vertex and the middle of every
\* edge).
C19_ChipsCoverPolygon ==
    Returned =>
        \A i \in 1..(Len(DrawnRing) - 1) :
            /\ Covered(DrawnRing[i])
            /\ Covered(<< (DrawnRing[i][1] + DrawnRing[i + 1][1]) \div 2,
                          (DrawnRing[i][2] + DrawnRing[i + 1][2]) \div 2 >>)


----------------------------------------------------------------------------
(* Properties of the blades and of the delete modal *)

\* the blades shown, other than the Chip Details blade
OpenBlades ==
    { b \in {"export", "training", "inference", "sample", "select"} :
        \/ b = "export" /\ showExport
        \/ b = "training" /\ showTraining
        \/ b = "inference" /\ showInference
        \/ b = "sample" /\ showSample
        \/ b = "select" /\ showSelect }

\* C15: in SELECT mode, clicking a chip opens the Chip Details blade for that
\* chip: after handleChipSelect(id) for an id of a chip in chips, the Chip
\* Details blade of that chip is the blade displayed, whichever of the
\* export, training, inference, sample and select blades was open before.
C15_ChipSelectShowsDetails ==
    (lastOp.name = "handleChipClick" /\ lastOp.arg \in Ids(chips)) =>
        /\ selectedChipId = lastOp.arg
        /\ ChipDetailsDisplayed
        /\ OpenBlades = {}

\* C20: the blades are mutually exclusive: at most one of showExport,
\* showTraining, showInference, showSample and showSelect is true in every
\* reachable state, whatever the order of the handlers and of the completion
\* of handleBoundsDrawn.
C20_OneBladeAtMost ==
    Cardinality(OpenBlades) <= 1

Quiet ==
    /\ saveTimeout = NoResult
    /\ inFlight = <<>>
    /\ clearReplies = 0

\* C17: Clear All persists: once every request issued has completed (the
\* clearLabels DELETE and every pending or in-flight auto-save POST), the
\* local label state is empty and the server holds no chips or polygons
\* for the project.
C17_ClearAllPersists ==
    (lastOp.name = "clearAll" /\ Quiet) =>
        /\ chips = <<>>
        /\ polygons = <<>>
        /\ stored[projectId] = NoLabels


----------------------------------------------------------------------------
(* Properties of click-to-place *)

\* C28: a chip placed by a map click contains the clicked point: the ring
\* createChipFromCenter(s.lng, s.lat), with s = snapToChipGrid(lng, lat),
\* contains (lng, lat), its edges included.
C28_ChipContainsClick ==
    chipRing # <<>> =>
        /\ chipRing[1][1] <= click.lng /\ click.lng <= chipRing[2][1]
        /\ chipRing[1][2] <= click.lat /\ click.lat <= chipRing[3][2]


----------------------------------------------------------------------------
(* Properties of the annotation state of the page *)

\* C21: switching the label type while an annotation is in progress cancels
\* the annotation: whenever labelType changes while isAnnotating is true,
\* afterwards isAnnotating is false, activeChipCenter is null and
\* pendingPolygons is empty, and no chip or polygon has been added.
C21_SwitchCancelsAnnotation ==
    [][(isAnnotating /\ labelType' # labelType) =>
          /\ ~isAnnotating'
          /\ activeChipCenter' = NoPoint
          /\ pendingPolygons' = <<>>
          /\ chips' = chips
          /\ polygons' = polygons
      ]_vars

\* C22: handleFinishAnnotation is all-or-nothing: with an active chip centre
\* and n >= 1 pending polygons it adds exactly one chip of type 'positive'
\* at that centre and exactly n polygons whose chipId is the new chip's id,
\* with the pending geometries in their order; with no pending polygons it
\* adds nothing; in both cases the chips and polygons there were are
\* unchanged and the annotation state is reset.
C22_FinishAllOrNothing ==
    [][(lastOp'.name \in {"addPositiveChipWithPolygons", "handleFinishAnnotation"}) =>
          LET n == Len(pendingPolygons)
              c == Len(chips)
              q == Len(polygons)
          IN  /\ isAnnotating
              /\ ~isAnnotating'
              /\ activeChipCenter' = NoPoint
              /\ pendingPolygons' = <<>>
              /\ SubSeq(chips', 1, c) = chips
              /\ SubSeq(polygons', 1, q) = polygons
              /\ IF activeChipCenter # NoPoint /\ n >= 1
                    THEN /\ Len(chips') = c + 1
                         /\ chips'[c + 1].type = "positive"
                         /\ chips'[c + 1].center = activeChipCenter
                         /\ chips'[c + 1].geometry =
                                createChipFromCenter(activeChipCenter.lng, activeChipCenter.lat)
                         /\ chips'[c + 1].id \notin Ids(chips)
                         /\ Len(polygons') = q + n
                         /\ \A k \in 1..n :
                              /\ polygons'[q + k].chipId = chips'[c + 1].id
                              /\ polygons'[q + k].geometry = pendingPolygons[k]
                    ELSE /\ Len(chips') = c
                         /\ Len(polygons') = q
      ]_vars

\* an annotation with two pending polygons has just been finished in a page
\* that held a chip before
C22_Reached ==
    /\ lastOp.name = "addPositiveChipWithPolygons"
    /\ lastOp.chipCount >= 1
    /\ Len(chips) = lastOp.chipCount + 1
    /\ Len(polygons) = lastOp.polygonCount + 2
    /\ ~isAnnotating

\* C29: the annotation state is consistent in every reachable state of the
\* page: isAnnotating is true exactly when activeChipCenter is non-null,
\* pendingPolygons is empty whenever isAnnotating is false, and while
\* isAnnotating is true a map click neither places a negative chip nor
\* starts another annotation nor changes the selected chip.
C29_AnnotationConsistent ==
    [][/\ isAnnotating' <=> (activeChipCenter' # NoPoint)
       /\ ~isAnnotating' => pendingPolygons' = <<>>
       /\ (lastOp'.name \in {"addNegativeChip", "handleStartAnnotation", "handleChipClick",
                           "handleMapClick"}) => ~isAnnotating
      ]_vars

\* polygons are pending in an annotation started while a chip was selected
C29_Reached ==
    /\ isAnnotating
    /\ Len(pendingPolygons) >= 1
    /\ selectedChipId \in Ids(chips)

\* C30: the two chip layers partition the chips.  After the chip layers are
\* updated, every chip is exactly one feature of exactly one of the two
\* collections, the positive chips in the positive one and the negative
\* chips in the negative one, with its id, type and geometry, the features
\* of each collection are in the order of their chips, and the chip list is
\* as it was.
LayerPlacements(features) ==
    { f \in [1..Len(features) -> 1..Len(chips)] :
        /\ \A j \in 1..Len(features) :
            /\ features[j].id = chips[f[j]].id
            /\ features[j].properties.id = chips[f[j]].id
            /\ features[j].properties.type = chips[f[j]].type
            /\ features[j].geometry = chips[f[j]].geometry
        /\ \A j, k \in 1..Len(features) : j < k => f[j] < f[k] }

C30_LayersPartitionChips ==
    [][(lastOp'.name = "chipsToFeatureCollection") =>
        /\ chips' = chips
        /\ Len(positiveSource'.features) + Len(negativeSource'.features) = Len(chips)
        /\ \A j \in 1..Len(positiveSource'.features) :
              positiveSource'.features[j].properties.type = "positive"
        /\ \A j \in 1..Len(negativeSource'.features) :
              negativeSource'.features[j].properties.type = "negative"
        /\ \E f \in LayerPlacements(positiveSource'.features),
               g \in LayerPlacements(negativeSource'.features) :
              /\ { f[j] : j \in DOMAIN f } \cap { g[j] : j \in DOMAIN g } = {}
              /\ { f[j] : j \in DOMAIN f } \cup { g[j] : j \in DOMAIN g } = 1..Len(chips) ]_vars

\* both layers hold chips, one of them two
C30_Reached ==
    /\ lastOp.name = "chipsToFeatureCollection"
    /\ Len(chips) = 3
    /\ Len(positiveSource.features) = 2
    /\ Len(negativeSource.features) = 1
    /\ chips[1].type = "positive"
    /\ chips[2].type = "negative"

\* C27: onBoundsDrawn is called only for a real drag.  Whenever handleMouseUp
\* calls onBoundsDrawn, the mouse has moved since the last mousedown, the
\* position of that mousedown is a corner of the bounds, west < east and
\* south < north, and both sides are longer than 0.001 degree.
C27_BoundsOnlyForDrag ==
    [][(lastOp'.name = "onBoundsDrawn") =>
        LET b == boundsDrawn'
        IN  /\ dragged
            /\ mouseDownAt # NoPoint
            /\ mouseDownAt.lng \in {b.west, b.east}
            /\ mouseDownAt.lat \in {b.south, b.north}
            /\ b.west < b.east
            /\ b.south < b.north
            /\ b.east - b.west > MinSizeUnits
            /\ b.north - b.south > MinSizeUnits ]_vars

\* C23: every label change made after the initial load is eventually
\* auto-saved: whenever a change has not been sent yet, a saveLabels request
\* carrying the labels of that moment or later ones is eventually sent,
\* whatever the user does next, leaving the page included.
C23_ChangeEventuallySaved == unsavedChange ~> ~unsavedChange

\* C24: concurrent auto-saves converge on the newest labels.  Once every
\* saveLabels request has been handled and no timer is set, the server
\* stores the client's chips and polygons for the project.
C24_SavesConverge ==
    (saveTimeout = NoResult /\ inFlight = <<>>) =>
        stored[project] = [chips |-> chips, polygons |-> polygons]

\* C25: no auto-save for a project before its labels were loaded.  Every
\* saveLabels request the timer sends is for the project whose labels
\* setInitialState put into the label state last.
C25_SaveOnlyLoadedProject ==
    [][(Len(inFlight') = Len(inFlight) + 1 /\ inFlight'[Len(inFlight')].method = "POST") =>
        inFlight'[Len(inFlight')].project = labelsLoadedFor ]_vars

\* C26: job polling runs only while a job is active and then stops.  While
\* the component is mounted and shows the job as active, the interval of the
\* effect on the jobs is set, and it is set only then; once the server's job
\* is in a terminal status, the mounted component comes to show that status
\* with no interval set and no answer on its way, unless it is closed
\* before; and from there it issues no poll until it is closed.
PollingStopped ==
    /\ jobsShown = jobStatus
    /\ ~listInterval
    /\ ~activeInterval
    /\ responses = <<>>

====
